---------------------------- MODULE Spec2Model ----------------------------
(***************************************************************************)
(* A model of the Pokemon arena server: the helpers of utils/helpers.ts,   *)
(* the remote data client (PokeApiService), the result derivation pipeline *)
(* (GeminiService), the tool surface (PokemonTools) and the HTTP battle    *)
(* route of the web server.                                                *)
(*                                                                         *)
(* A JavaScript string is a sequence of symbols.  A symbol is one          *)
(* character ("a", "1", "-", " ") or one fixed piece of text that the code *)
(* only ever treats as a unit (a heading marker such as "**WINNER:**", a   *)
(* word of a template).                                                    *)
(***************************************************************************)
EXTENDS Integers, Sequences, FiniteSets, TLC

VARIABLES
    vIn,        \* validatePokemonIdentifier: the identifier given
    vOut,       \* validatePokemonIdentifier: the result, or None
    pText,      \* parseBattleResult: the model text
    pOne,       \* parseBattleResult: pokemon1
    pTwo,       \* parseBattleResult: pokemon2
    pShape,     \* how pText was put together (the sections and their order)
    pOut,       \* parseBattleResult: the BattleResult, or None
    tIn,        \* transformToSimplifiedPokemon: the raw records, or None
    tOut,       \* transformToSimplifiedPokemon: the SimplifiedPokemon, or None
    cache,      \* PokeApiService.cache: endpoint -> {data, timestamp}
    now,        \* Date.now()
    ticks,      \* how often the clock has advanced
    rev,        \* the revision of the records the remote service holds
    started,    \* how many requests have been started
    req,        \* the request being served, or None
    slots,      \* the fetchWithCache calls of the request, in call order
    resp,       \* the response delivered for the request, or None
    clears,     \* how often clearCache has been called
    retry       \* retryWithBackoff: the call in hand, or None

vars == <<vIn, vOut, pText, pOne, pTwo, pShape, pOut, tIn, tOut,
          cache, now, ticks, rev, started, req, slots, resp, clears, retry>>

None == [none |-> TRUE]

\* An error thrown inside a handler
Throw(message) == [thrown |-> TRUE, message |-> message]

IsThrown(outcome) == "thrown" \in DOMAIN outcome

\* ------------------------------------------------------------- strings

Digits == {"0", "1", "9"}
OctalDigits == {"0", "1"}
BinaryDigits == {"0", "1"}
LowerLetters == {"a", "b", "e", "o", "x"}
UpperLetters == {"A"}
HexDigits == Digits \cup {"a", "b", "e"}
WhiteSpace == {" ", "\n"}

\* String.prototype.toLowerCase, symbol by symbol
LowerSym(c) == IF c = "A" THEN "a" ELSE c

toLowerCase(s) == [i \in 1..Len(s) |-> LowerSym(s[i])]

RECURSIVE trimStart(_)
trimStart(s) ==
    IF s # <<>> /\ Head(s) \in WhiteSpace THEN trimStart(Tail(s)) ELSE s

RECURSIVE trimEnd(_)
trimEnd(s) ==
    IF s # <<>> /\ s[Len(s)] \in WhiteSpace
    THEN trimEnd(SubSeq(s, 1, Len(s) - 1))
    ELSE s

\* String.prototype.trim
trim(s) == trimEnd(trimStart(s))

\* String.prototype.includes: `sub` occurs in `text`
includes(text, sub) ==
    \E i \in 0..(Len(text) - Len(sub)) : SubSeq(text, i + 1, i + Len(sub)) = sub

AllIn(s, S) == \A i \in 1..Len(s) : s[i] \in S

IsDigits(s) == Len(s) > 0 /\ AllIn(s, Digits)

\* ------------------------------------------- utils/helpers.ts: validation

\* StrDecimalLiteral over this alphabet: -? digits (e -? digits)?
IsStrDecimalLiteral(t) ==
    LET u == IF t # <<>> /\ Head(t) = "-" THEN Tail(t) ELSE t
    IN  \/ IsDigits(u)
        \/ \E k \in 2..(Len(u) - 1) :
             /\ u[k] = "e"
             /\ IsDigits(SubSeq(u, 1, k - 1))
             /\ LET x == SubSeq(u, k + 1, Len(u))
                    y == IF Head(x) = "-" THEN Tail(x) ELSE x
                IN  IsDigits(y)

\* NonDecimalIntegerLiteral: 0x.., 0o.., 0b..
IsNonDecimalIntegerLiteral(t) ==
    /\ Len(t) >= 3
    /\ t[1] = "0"
    /\ LET d == SubSeq(t, 3, Len(t))
       IN  \/ t[2] = "x" /\ AllIn(d, HexDigits)
           \/ t[2] = "o" /\ AllIn(d, OctalDigits)
           \/ t[2] = "b" /\ AllIn(d, BinaryDigits)

\* isNaN(Number(str)): Number trims, reads "" as 0 and otherwise wants the
\* whole string to be a numeric literal
NumberIsNaN(str) ==
    LET t == trim(str)
    IN  t # <<>> /\ ~IsStrDecimalLiteral(t) /\ ~IsNonDecimalIntegerLiteral(t)

\* isNaN(parseFloat(str)): parseFloat reads the longest decimal prefix
parseFloatIsNaN(str) ==
    LET t == trimStart(str)
        u == IF t # <<>> /\ Head(t) = "-" THEN Tail(t) ELSE t
    IN  ~(u # <<>> /\ Head(u) \in Digits)

isNumeric(str) == ~NumberIsNaN(str) /\ ~parseFloatIsNaN(str)

\* the character class [a-z0-9\-]
IdentifierChars == LowerLetters \cup Digits \cup {"-"}

sanitizeInput(input) ==
    SelectSeq(toLowerCase(trim(input)), LAMBDA c : c \in IdentifierChars)

\* /^[a-z\-]+$/
IsLettersAndHyphens(s) == Len(s) > 0 /\ AllIn(s, LowerLetters \cup {"-"})

validatePokemonIdentifier(identifier) ==
    LET sanitized == sanitizeInput(identifier)
    IN  [isValid   |-> Len(sanitized) > 0
                       /\ (isNumeric(sanitized) \/ IsLettersAndHyphens(sanitized)),
         sanitized |-> sanitized]


\* ------------------------------------------- the catalog of the remote service

\* Raw records as GET /pokemon/{id} delivers them (types/pokemon.ts: Pokemon).
\* A stat list may lack some of the six named stats, and the type and ability
\* lists come in whatever order the service sends.
\* A record of one stat, without types and abilities
OtherPokemon(id, name) ==
    [id |-> id, name |-> name, base_experience |-> 0,
     stats |-> <<[name |-> "hp", base_stat |-> 1]>>,
     types |-> <<>>, abilities |-> <<>>]

OtherSpecies(name) == [name |-> name, is_legendary |-> FALSE, is_mythical |-> FALSE]

RawPokemon ==
    [a |-> [id |-> 1, name |-> <<"a">>, base_experience |-> 0,
            stats |-> <<[name |-> "hp", base_stat |-> 3],
                        [name |-> "attack", base_stat |-> 2],
                        [name |-> "speed", base_stat |-> 1]>>,
            types |-> <<[slot |-> 2, name |-> "rock"],
                        [slot |-> 1, name |-> "fire"]>>,
            abilities |-> <<[slot |-> 1, name |-> "static"]>>],
     b |-> [id |-> 2, name |-> <<"b">>, base_experience |-> 0,
            stats |-> <<[name |-> "hp", base_stat |-> 1],
                        [name |-> "attack", base_stat |-> 3],
                        [name |-> "defense", base_stat |-> 1],
                        [name |-> "special-attack", base_stat |-> 0],
                        [name |-> "special-defense", base_stat |-> 0],
                        [name |-> "speed", base_stat |-> 1]>>,
            types |-> <<[slot |-> 1, name |-> "water"]>>,
            abilities |-> <<[slot |-> 3, name |-> "sturdy"],
                            [slot |-> 1, name |-> "torrent"]>>],
     e |-> [id |-> 9, name |-> <<"e">>, base_experience |-> 0,
            stats |-> <<[name |-> "hp", base_stat |-> 1],
                        [name |-> "speed", base_stat |-> 2]>>,
            types |-> <<>>,
            abilities |-> <<>>],
     ab |-> [id |-> 12, name |-> <<"a", "b">>, base_experience |-> 0,
             stats |-> <<[name |-> "hp", base_stat |-> 2]>>,
             types |-> <<[slot |-> 2, name |-> "water"],
                         [slot |-> 1, name |-> "rock"]>>,
             abilities |-> <<>>],
     abe |-> [id |-> 129, name |-> <<"a", "b", "e">>, base_experience |-> 0,
              stats |-> <<[name |-> "speed", base_stat |-> 1]>>,
              types |-> <<[slot |-> 1, name |-> "fire"]>>,
              abilities |-> <<>>],
     axa |-> OtherPokemon(21, <<"a", "x", "a">>),
     axb |-> OtherPokemon(22, <<"a", "x", "b">>),
     axe |-> OtherPokemon(23, <<"a", "x", "e">>),
     axo |-> OtherPokemon(24, <<"a", "x", "o">>),
     eax |-> OtherPokemon(25, <<"e", "a", "x">>),
     oax |-> OtherPokemon(26, <<"o", "a", "x">>)]

\* Raw records as GET /pokemon-species/{id} delivers them (PokemonSpecies)
RawSpecies ==
    [a |-> [name |-> <<"a">>, is_legendary |-> FALSE, is_mythical |-> FALSE],
     b |-> [name |-> <<"b">>, is_legendary |-> TRUE, is_mythical |-> FALSE],
     e |-> [name |-> <<"e">>, is_legendary |-> FALSE, is_mythical |-> TRUE],
     ab |-> [name |-> <<"a", "b">>, is_legendary |-> FALSE, is_mythical |-> FALSE],
     abe |-> [name |-> <<"a", "b", "e">>, is_legendary |-> TRUE,
              is_mythical |-> TRUE],
     axa |-> OtherSpecies(<<"a", "x", "a">>),
     axb |-> OtherSpecies(<<"a", "x", "b">>),
     axe |-> OtherSpecies(<<"a", "x", "e">>),
     axo |-> OtherSpecies(<<"a", "x", "o">>),
     eax |-> OtherSpecies(<<"e", "a", "x">>),
     oax |-> OtherSpecies(<<"o", "a", "x">>)]

\* The names GET /pokemon lists, in the order of the service
CatalogNames ==
    <<<<"a">>, <<"b">>, <<"e">>, <<"a", "b">>, <<"a", "b", "e">>,
      <<"a", "x", "a">>, <<"a", "x", "b">>, <<"a", "x", "e">>, <<"a", "x", "o">>,
      <<"e", "a", "x">>, <<"o", "a", "x">>>>

\* The identifiers the service knows: each name, and the number of "a"
CatalogKey(id) ==
    CASE id = <<"a">> -> "a"
      [] id = <<"1">> -> "a"
      [] id = <<"b">> -> "b"
      [] id = <<"e">> -> "e"
      [] id = <<"a", "b">> -> "ab"
      [] id = <<"a", "b", "e">> -> "abe"
      [] id = <<"a", "x", "a">> -> "axa"
      [] id = <<"a", "x", "b">> -> "axb"
      [] id = <<"a", "x", "e">> -> "axe"
      [] id = <<"a", "x", "o">> -> "axo"
      [] id = <<"e", "a", "x">> -> "eax"
      [] id = <<"o", "a", "x">> -> "oax"
      [] OTHER -> "none"

\* ------------------------------ PokeApiService.transformToSimplifiedPokemon

\* The stat lookup without its default for a missing stat
RECURSIVE StatOf_NoDefault(_, _)
StatOf_NoDefault(stats, n) ==
    IF stats = <<>> THEN -1
    ELSE IF Head(stats).name = n THEN Head(stats).base_stat
    ELSE StatOf_NoDefault(Tail(stats), n)

\* pokemon.stats.find(s => s.stat.name === n)?.base_stat || 0
RECURSIVE StatOf(_, _)
StatOf(stats, n) ==
    IF stats = <<>> THEN 0
    ELSE IF Head(stats).name = n THEN Head(stats).base_stat
    ELSE StatOf(Tail(stats), n)

\* The insertion of an unstable sort: an entry goes before its equals
RECURSIVE InsertBySlot_BeforeEquals(_, _)
InsertBySlot_BeforeEquals(x, sorted) ==
    IF sorted = <<>> THEN <<x>>
    ELSE IF x.slot <= Head(sorted).slot THEN <<x>> \o sorted
    ELSE <<Head(sorted)>> \o InsertBySlot_BeforeEquals(x, Tail(sorted))

\* Array.prototype.sort((a, b) => a.slot - b.slot): a stable insertion
RECURSIVE InsertBySlot(_, _)
InsertBySlot(x, sorted) ==
    IF sorted = <<>> THEN <<x>>
    ELSE IF x.slot < Head(sorted).slot THEN <<x>> \o sorted
    ELSE <<Head(sorted)>> \o InsertBySlot(x, Tail(sorted))

RECURSIVE SortBySlot(_)
SortBySlot(s) ==
    IF s = <<>> THEN <<>>
    ELSE InsertBySlot(s[Len(s)], SortBySlot(SubSeq(s, 1, Len(s) - 1)))

Names(s) == [i \in 1..Len(s) |-> s[i].name]

transformToSimplifiedPokemon(pokemon, species) ==
    LET hp == StatOf(pokemon.stats, "hp")
        attack == StatOf(pokemon.stats, "attack")
        defense == StatOf(pokemon.stats, "defense")
        specialAttack == StatOf(pokemon.stats, "special-attack")
        specialDefense == StatOf(pokemon.stats, "special-defense")
        speed == StatOf(pokemon.stats, "speed")
    IN  [id |-> pokemon.id,
         name |-> pokemon.name,
         types |-> Names(SortBySlot(pokemon.types)),
         stats |-> [hp |-> hp, attack |-> attack, defense |-> defense,
                    specialAttack |-> specialAttack,
                    specialDefense |-> specialDefense, speed |-> speed,
                    total |-> hp + attack + defense + specialAttack
                              + specialDefense + speed],
         abilities |-> Names(SortBySlot(pokemon.abilities)),
         isLegendary |-> species.is_legendary,
         isMythical |-> species.is_mythical]

Simplified(k) == transformToSimplifiedPokemon(RawPokemon[k], RawSpecies[k])

\* --------------------------------------- GeminiService.parseBattleResult

Headings ==
    {"**WINNER:**", "**BATTLE LOG:**", "**STRATEGIC ANALYSIS:**", "**SUMMARY:**"}

\* String.prototype.startsWith, for a prefix that is one symbol
startsWith(s, prefix) == s # <<>> /\ Head(s) = prefix

\* startsWith('**'): every heading marker begins with the two asterisks too
startsWithBold(s) == s # <<>> /\ Head(s) \in ({"**"} \cup Headings)

\* String.prototype.split('\n')
RECURSIVE split(_)
split(s) ==
    IF \A i \in 1..Len(s) : s[i] # "\n" THEN <<s>>
    ELSE LET k == CHOOSE i \in 1..Len(s) :
                      s[i] = "\n" /\ \A j \in 1..(i - 1) : s[j] # "\n"
         IN  <<SubSeq(s, 1, k - 1)>> \o split(SubSeq(s, k + 1, Len(s)))

ParseStart ==
    [winner |-> <<>>, loser |-> <<>>, battleLog |-> <<>>, analysis |-> <<>>,
     summary |-> <<>>, currentSection |-> ""]

\* ParseLine with the analysis accumulated without the separating blank
ParseLine_NoBlank(acc, line, pokemon1, pokemon2) ==
    LET trimmedLine == trim(line)
    IN  IF startsWith(trimmedLine, "**WINNER:**") THEN
            LET winner == trim(Tail(trimmedLine))
            IN  [acc EXCEPT !.currentSection = "winner",
                            !.winner = winner,
                            !.loser = IF toLowerCase(winner) = toLowerCase(pokemon1.name)
                                      THEN pokemon2.name ELSE pokemon1.name]
        ELSE IF startsWith(trimmedLine, "**BATTLE LOG:**") THEN
            [acc EXCEPT !.currentSection = "battleLog"]
        ELSE IF startsWith(trimmedLine, "**STRATEGIC ANALYSIS:**") THEN
            [acc EXCEPT !.currentSection = "analysis"]
        ELSE IF startsWith(trimmedLine, "**SUMMARY:**") THEN
            [acc EXCEPT !.currentSection = "summary"]
        ELSE IF trimmedLine # <<>> /\ ~startsWithBold(trimmedLine) THEN
            CASE acc.currentSection = "battleLog" ->
                   [acc EXCEPT !.battleLog = Append(@, trimmedLine)]
              [] acc.currentSection = "analysis" ->
                   [acc EXCEPT !.analysis = @ \o trimmedLine]
              [] acc.currentSection = "summary" ->
                   [acc EXCEPT !.summary =
                       @ \o (IF @ # <<>> THEN <<" ">> ELSE <<>>) \o trimmedLine]
              [] OTHER -> acc
        ELSE acc

\* ParseLine with an empty line closing the section that was open
ParseLine_BlankEndsSection(acc, line, pokemon1, pokemon2) ==
    LET trimmedLine == trim(line)
    IN  IF startsWith(trimmedLine, "**WINNER:**") THEN
            LET winner == trim(Tail(trimmedLine))
            IN  [acc EXCEPT !.currentSection = "winner",
                            !.winner = winner,
                            !.loser = IF toLowerCase(winner) = toLowerCase(pokemon1.name)
                                      THEN pokemon2.name ELSE pokemon1.name]
        ELSE IF startsWith(trimmedLine, "**BATTLE LOG:**") THEN
            [acc EXCEPT !.currentSection = "battleLog"]
        ELSE IF startsWith(trimmedLine, "**STRATEGIC ANALYSIS:**") THEN
            [acc EXCEPT !.currentSection = "analysis"]
        ELSE IF startsWith(trimmedLine, "**SUMMARY:**") THEN
            [acc EXCEPT !.currentSection = "summary"]
        ELSE IF trimmedLine # <<>> /\ ~startsWithBold(trimmedLine) THEN
            CASE acc.currentSection = "battleLog" ->
                   [acc EXCEPT !.battleLog = Append(@, trimmedLine)]
              [] acc.currentSection = "analysis" ->
                   [acc EXCEPT !.analysis =
                       @ \o (IF @ # <<>> THEN <<" ">> ELSE <<>>) \o trimmedLine]
              [] acc.currentSection = "summary" ->
                   [acc EXCEPT !.summary =
                       @ \o (IF @ # <<>> THEN <<" ">> ELSE <<>>) \o trimmedLine]
              [] OTHER -> acc
        ELSE IF trimmedLine = <<>> THEN [acc EXCEPT !.currentSection = ""]
        ELSE acc

\* ParseLine with the declared winner compared to creature 1 letter by letter
ParseLine_LoserCaseSensitive(acc, line, pokemon1, pokemon2) ==
    LET trimmedLine == trim(line)
    IN  IF startsWith(trimmedLine, "**WINNER:**") THEN
            LET winner == trim(Tail(trimmedLine))
            IN  [acc EXCEPT !.currentSection = "winner",
                            !.winner = winner,
                            !.loser = IF winner = pokemon1.name
                                      THEN pokemon2.name ELSE pokemon1.name]
        ELSE IF startsWith(trimmedLine, "**BATTLE LOG:**") THEN
            [acc EXCEPT !.currentSection = "battleLog"]
        ELSE IF startsWith(trimmedLine, "**STRATEGIC ANALYSIS:**") THEN
            [acc EXCEPT !.currentSection = "analysis"]
        ELSE IF startsWith(trimmedLine, "**SUMMARY:**") THEN
            [acc EXCEPT !.currentSection = "summary"]
        ELSE IF trimmedLine # <<>> /\ ~startsWithBold(trimmedLine) THEN
            CASE acc.currentSection = "battleLog" ->
                   [acc EXCEPT !.battleLog = Append(@, trimmedLine)]
              [] acc.currentSection = "analysis" ->
                   [acc EXCEPT !.analysis =
                       @ \o (IF @ # <<>> THEN <<" ">> ELSE <<>>) \o trimmedLine]
              [] acc.currentSection = "summary" ->
                   [acc EXCEPT !.summary =
                       @ \o (IF @ # <<>> THEN <<" ">> ELSE <<>>) \o trimmedLine]
              [] OTHER -> acc
        ELSE acc

\* The body of the loop over the lines (gemini.ts 163-189)
ParseLine(acc, line, pokemon1, pokemon2) ==
    LET trimmedLine == trim(line)
    IN  IF startsWith(trimmedLine, "**WINNER:**") THEN
            LET winner == trim(Tail(trimmedLine))
            IN  [acc EXCEPT !.currentSection = "winner",
                            !.winner = winner,
                            !.loser = IF toLowerCase(winner) = toLowerCase(pokemon1.name)
                                      THEN pokemon2.name ELSE pokemon1.name]
        ELSE IF startsWith(trimmedLine, "**BATTLE LOG:**") THEN
            [acc EXCEPT !.currentSection = "battleLog"]
        ELSE IF startsWith(trimmedLine, "**STRATEGIC ANALYSIS:**") THEN
            [acc EXCEPT !.currentSection = "analysis"]
        ELSE IF startsWith(trimmedLine, "**SUMMARY:**") THEN
            [acc EXCEPT !.currentSection = "summary"]
        ELSE IF trimmedLine # <<>> /\ ~startsWithBold(trimmedLine) THEN
            CASE acc.currentSection = "battleLog" ->
                   [acc EXCEPT !.battleLog = Append(@, trimmedLine)]
              [] acc.currentSection = "analysis" ->
                   [acc EXCEPT !.analysis =
                       @ \o (IF @ # <<>> THEN <<" ">> ELSE <<>>) \o trimmedLine]
              [] acc.currentSection = "summary" ->
                   [acc EXCEPT !.summary =
                       @ \o (IF @ # <<>> THEN <<" ">> ELSE <<>>) \o trimmedLine]
              [] OTHER -> acc
        ELSE acc

RECURSIVE ParseLines(_, _, _, _)
ParseLines(acc, lines, pokemon1, pokemon2) ==
    IF lines = <<>> THEN acc
    ELSE ParseLines(ParseLine(acc, Head(lines), pokemon1, pokemon2),
                    Tail(lines), pokemon1, pokemon2)

AnalysisFallback ==
    <<"Statistical analysis determined the outcome based on overall battle capability.">>

SummaryFallback(winner) ==
    winner \o <<" emerged victorious in this Pokemon battle.">>

\* The winner by total stats with the first creature preferred on a tie
StatWinner_FirstOnTie(pokemon1, pokemon2) ==
    IF pokemon1.stats.total >= pokemon2.stats.total
    THEN pokemon1.name ELSE pokemon2.name

\* The winner by total stats (gemini.ts 194)
StatWinner(pokemon1, pokemon2) ==
    IF pokemon1.stats.total > pokemon2.stats.total
    THEN pokemon1.name ELSE pokemon2.name

\* The fallbacks applied together, and only when the text names no winner
parseBattleResult_FallbackTogether(battleNarrative, pokemon1, pokemon2) ==
    LET acc == ParseLines(ParseStart, split(battleNarrative), pokemon1, pokemon2)
        winner == StatWinner(pokemon1, pokemon2)
    IN  IF acc.winner # <<>>
        THEN [winner |-> acc.winner, loser |-> acc.loser,
              battleLog |-> acc.battleLog, analysis |-> acc.analysis,
              summary |-> acc.summary]
        ELSE [winner |-> winner,
              loser |-> IF winner = pokemon1.name THEN pokemon2.name
                        ELSE pokemon1.name,
              battleLog |-> <<battleNarrative>>,
              analysis |-> AnalysisFallback,
              summary |-> SummaryFallback(winner)]

\* gemini.ts 153-216
parseBattleResult(battleNarrative, pokemon1, pokemon2) ==
    LET acc == ParseLines(ParseStart, split(battleNarrative), pokemon1, pokemon2)
        winner == IF acc.winner = <<>>
                  THEN StatWinner(pokemon1, pokemon2) ELSE acc.winner
        loser == IF acc.winner = <<>>
                 THEN (IF winner = pokemon1.name THEN pokemon2.name
                       ELSE pokemon1.name)
                 ELSE acc.loser
    IN  [winner |-> winner,
         loser |-> loser,
         battleLog |-> IF Len(acc.battleLog) = 0 THEN <<battleNarrative>>
                       ELSE acc.battleLog,
         analysis |-> IF acc.analysis = <<>> THEN AnalysisFallback
                      ELSE acc.analysis,
         summary |-> IF acc.summary = <<>> THEN SummaryFallback(winner)
                     ELSE acc.summary]


\* ------------------------------------------------ PokeApiService: the cache

CACHE_TTL == 1000 * 60 * 30

\* isValidCache with the boundary instant taken as still fresh
isValidCache_Inclusive(cacheEntry, t) == t - cacheEntry.timestamp <= CACHE_TTL

isValidCache(cacheEntry, t) == t - cacheEntry.timestamp < CACHE_TTL

\* `/pokemon/${identifier.toString().toLowerCase()}` and its like
EpPokemon(identifier) ==
    [kind |-> "pokemon", id |-> toLowerCase(identifier), limit |-> 0, offset |-> 0]

EpSpecies(identifier) ==
    [kind |-> "pokemon-species", id |-> toLowerCase(identifier),
     limit |-> 0, offset |-> 0]

\* `/pokemon?limit=${limit}&offset=${offset}`
EpList(limit, offset) ==
    [kind |-> "list", id |-> <<>>, limit |-> limit, offset |-> offset]

\* What the remote service answers to a GET that it can answer.  A revision
\* of the catalog changes base_experience, nothing else.
Payload(ep, r) ==
    CASE ep.kind = "pokemon" ->
           [RawPokemon[CatalogKey(ep.id)] EXCEPT !.base_experience = r]
      [] ep.kind = "pokemon-species" -> RawSpecies[CatalogKey(ep.id)]
      [] OTHER ->
           LET all == [i \in 1..Len(CatalogNames) |-> [name |-> CatalogNames[i]]]
               from == IF ep.offset < 0 THEN 0 ELSE ep.offset
               upto == IF from + ep.limit > Len(all) THEN Len(all)
                       ELSE from + ep.limit
           IN  [count |-> Len(all), results |-> SubSeq(all, from + 1, upto)]

\* Whether the remote service has an answer other than an error status
RemoteHas(ep) == ep.kind = "list" \/ CatalogKey(ep.id) # "none"

CacheGet(ch, endpoint) == IF endpoint \in DOMAIN ch THEN ch[endpoint] ELSE None

\* A write under a key that does not tell the endpoints apart
CacheSet_OneKey(ch, endpoint, entry) == [e \in DOMAIN ch \cup {endpoint} |-> entry]

\* A write that also drops the entries that have expired
CacheSet_DropsExpired(ch, endpoint, entry) ==
    [e \in {k \in DOMAIN ch : isValidCache(ch[k], now)} \cup {endpoint}
        |-> IF e = endpoint THEN entry ELSE ch[e]]

\* this.cache.set(endpoint, entry)  (part_001 59-62)
CacheSet(ch, endpoint, entry) ==
    [e \in DOMAIN ch \cup {endpoint} |-> IF e = endpoint THEN entry ELSE ch[e]]

\* fetchWithCache up to its await (part_001 50-56), called at time `now` on
\* the cache `ch`:
\* the call is answered from the cache, or one GET leaves.  `oid` names the
\* object the call returns: the cached one, or the one the GET will deliver.
\* `at`, `prior` and `gets` record the time of the call, the entry it found
\* and the number of GETs it has issued.
fetchWithCache(ch, endpoint, grp, oid) ==
    LET cached == CacheGet(ch, endpoint)
    IN  IF cached # None /\ isValidCache(cached, now)
        THEN [grp |-> grp, ep |-> endpoint, st |-> "hit", data |-> cached.data,
              oid |-> cached.oid, at |-> now, prior |-> cached, gets |-> 0]
        ELSE [grp |-> grp, ep |-> endpoint, st |-> "pending", data |-> None,
              oid |-> oid, at |-> now, prior |-> cached, gets |-> 1]

\* fetchWithCache after a successful GET (part_001 57-64)
FetchStored(slot, data) == [slot EXCEPT !.st = "ok", !.data = data]

\* `Failed to fetch ${endpoint}: ...`  (part_001 66)
FailedToFetch(endpoint) == [text |-> "Failed to fetch ", endpoint |-> endpoint]

\* fetchWithCache answering a failed GET with the entry it found expired
FetchThrown_ServesExpired(slot) ==
    IF slot.prior # None
    THEN [slot EXCEPT !.st = "ok", !.data = slot.prior.data]
    ELSE [slot EXCEPT !.st = "fail", !.data = Throw(FailedToFetch(slot.ep))]

\* fetchWithCache after a failed GET (part_001 65-67): it throws, once
FetchThrown(slot) ==
    [slot EXCEPT !.st = "fail", !.data = Throw(FailedToFetch(slot.ep))]

Settled(slot) == slot.st # "pending"
Succeeded(slot) == slot.st \in {"hit", "ok"}

\* The in-place sort of transformToSimplifiedPokemon (part_001 117-124) as
\* it shows in an object that holds the raw record
SortedInPlace(pokemon) ==
    [pokemon EXCEPT !.types = SortBySlot(@), !.abilities = SortBySlot(@)]

\* The cache after the raw record `oid` was sorted in place
CacheAfterSort(ch, oid) ==
    [e \in DOMAIN ch |->
        IF ch[e].oid = oid THEN [ch[e] EXCEPT !.data = SortedInPlace(@)]
        ELSE ch[e]]

\* The calls' results after the raw record `oid` was sorted in place
SlotsAfterSort(sl, oid) ==
    [i \in 1..Len(sl) |->
        IF sl[i].oid = oid /\ Succeeded(sl[i])
        THEN [sl[i] EXCEPT !.data = SortedInPlace(@)]
        ELSE sl[i]]

\* ------------------------------------ web server: GET /api/pokemon/:name

StatNames ==
    {"hp", "attack", "defense", "special-attack", "special-defense", "speed"}

HasStat(stats, n) == \E i \in 1..Len(stats) : stats[i].name = n

\* The record sent to the frontend (part_002 119-135).  find(...).base_stat
\* throws when the stat is missing, which the handler answers with 404.
TransformedData(pokemonData) ==
    [id |-> pokemonData.id,
     name |-> pokemonData.name,
     types |-> Names(pokemonData.types),
     stats |-> [hp |-> StatOf(pokemonData.stats, "hp"),
                attack |-> StatOf(pokemonData.stats, "attack"),
                defense |-> StatOf(pokemonData.stats, "defense"),
                specialAttack |-> StatOf(pokemonData.stats, "special-attack"),
                specialDefense |-> StatOf(pokemonData.stats, "special-defense"),
                speed |-> StatOf(pokemonData.stats, "speed")],
     abilities |-> Names(pokemonData.abilities)]

HttpResponse(status, body) ==
    [surface |-> "http", status |-> status, isError |-> status >= 400,
     body |-> body, text |-> <<>>]

\* The handler after its await of pokeApi.getPokemon (part_002 115-142)
PokemonSettle(rq, sl, ch, rs) ==
    IF rq.phase # "fetching" \/ ~Settled(sl[1])
    THEN [req |-> rq, slots |-> sl, cache |-> ch, resp |-> rs]
    ELSE [req |-> [rq EXCEPT !.phase = "done"], slots |-> sl, cache |-> ch,
          resp |-> IF Succeeded(sl[1])
                      /\ \A n \in StatNames : HasStat(sl[1].data.stats, n)
                   THEN HttpResponse(200, TransformedData(sl[1].data))
                   ELSE HttpResponse(404, [error |-> "Pokemon not found"])]

\* ------------------------------------------------- rendering a battle

UpperSym(c) ==
    CASE c = "a" -> "A" [] c = "b" -> "B" [] c = "e" -> "E"
      [] c = "o" -> "O" [] c = "x" -> "X" [] OTHER -> c

\* name.split('-').map(capitalizeFirst).join(' ')
formatPokemonName(name) ==
    [i \in 1..Len(name) |->
        IF name[i] = "-" THEN " "
        ELSE IF i = 1 \/ name[i - 1] = "-" THEN UpperSym(name[i])
        ELSE name[i]]

\* Array.prototype.join
RECURSIVE Join(_, _)
Join(strs, sep) ==
    IF strs = <<>> THEN <<>>
    ELSE IF Len(strs) = 1 THEN Head(strs)
    ELSE Head(strs) \o sep \o Join(Tail(strs), sep)

\* PokemonTools.formatBattleResult (gemini.ts 540-561)
formatBattleResult(result, pokemon1, pokemon2) ==
    <<"# Battle Simulation: ">> \o formatPokemonName(pokemon1.name)
    \o <<" vs ">> \o formatPokemonName(pokemon2.name)
    \o <<"\n", "\n", "## Battle Result", "\n", "**Winner:** ">>
    \o formatPokemonName(result.winner)
    \o <<"\n", "\n", "## Battle Narrative", "\n">>
    \o Join(result.battleLog, <<"\n", "\n">>)
    \o <<"\n", "\n", "## Strategic Analysis", "\n">> \o result.analysis
    \o <<"\n", "\n", "## Summary", "\n">> \o result.summary
    \o <<"\n", "\n", "---", "\n", "*Battle simulation powered by Gemini AI*">>

ToolResult(text) ==
    [surface |-> "tool", status |-> 0, isError |-> FALSE, body |-> None,
     text |-> text]

ToolError(text) ==
    [surface |-> "tool", status |-> 0, isError |-> TRUE, body |-> None,
     text |-> text]

\* The message of the error simulateBattle throws (gemini.ts 81)
GeminiFailed == <<"Gemini API failed: ">>

\* ------------------------------- web server: the fallback of POST /api/battle

\* The winner's choice with the first creature preferred on equal totals
FallbackWinner_FirstOnTie(completeData1, completeData2) ==
    IF completeData1.stats.total >= completeData2.stats.total
    THEN completeData1.name ELSE completeData2.name

\* part_002 210
FallbackWinner(completeData1, completeData2) ==
    IF completeData1.stats.total > completeData2.stats.total
    THEN completeData1.name ELSE completeData2.name

\* `${types[0]}`: undefined when the list is empty
FirstType(types) == IF types = <<>> THEN "undefined" ELSE types[1]

TypeList(types) == Join([i \in 1..Len(types) |-> <<types[i]>>], <<"/">>)

\* The battle log without its closing line
FallbackBattleLog_FiveLines(completeData1, completeData2, winner, loser, winnerData) ==
    <<completeData1.name \o <<" enters the battlefield with ",
                              ToString(completeData1.stats.hp), " HP!">>,
      completeData2.name \o <<" prepares for battle with ",
                              ToString(completeData2.stats.speed), " speed!">>,
      winner \o <<" used ", FirstType(winnerData.types), "-type attack!">>,
      loser \o <<" counters with a defensive move!">>,
      winner \o <<" lands a critical hit with superior stats!">>>>

\* part_002 218-225
FallbackBattleLog(completeData1, completeData2, winner, loser, winnerData) ==
    <<completeData1.name \o <<" enters the battlefield with ",
                              ToString(completeData1.stats.hp), " HP!">>,
      completeData2.name \o <<" prepares for battle with ",
                              ToString(completeData2.stats.speed), " speed!">>,
      winner \o <<" used ", FirstType(winnerData.types), "-type attack!">>,
      loser \o <<" counters with a defensive move!">>,
      winner \o <<" lands a critical hit with superior stats!">>,
      loser \o <<" is defeated! ">> \o winner \o <<" emerges victorious!">>>>

\* part_002 209-233
FallbackBattleResult(completeData1, completeData2, message) ==
    LET winner == FallbackWinner(completeData1, completeData2)
        loser == IF winner = completeData1.name THEN completeData2.name
                 ELSE completeData1.name
        winnerData == IF winner = completeData1.name THEN completeData1
                      ELSE completeData2
        loserData == IF winner = completeData1.name THEN completeData2
                     ELSE completeData1
    IN  [winner |-> winner,
         loser |-> loser,
         battleLog |-> FallbackBattleLog(completeData1, completeData2,
                                         winner, loser, winnerData),
         analysis |->
            winner \o <<" won due to superior total stats (",
                        ToString(winnerData.stats.total), " vs ",
                        ToString(loserData.stats.total), "). Key advantages: ">>
            \o (IF winnerData.stats.attack > loserData.stats.attack
                THEN <<"Higher Attack">> ELSE <<>>) \o <<" ">>
            \o (IF winnerData.stats.speed > loserData.stats.speed
                THEN <<"Faster Speed">> ELSE <<>>) \o <<" ">>
            \o (IF winnerData.stats.hp > loserData.stats.hp
                THEN <<"More HP">> ELSE <<>>)
            \o <<". Type advantage: ">> \o TypeList(winnerData.types)
            \o <<" vs ">> \o TypeList(loserData.types) \o <<".">>,
         summary |->
            winner \o <<" dominated this Pokemon battle through statistical superiority and strategic type advantages.">>,
         geminiError |-> [occurred |-> TRUE, message |-> message,
                          fallbackUsed |-> TRUE]]

\* The response marked as a fallback whenever the outcome is sent
BattleResponse_AlwaysFallback(battleResult, usingFallback, completeData1, completeData2, t) ==
    battleResult @@
    [metadata |-> [timestamp |-> t, usingFallback |-> TRUE,
                   pokemon1 |-> completeData1.name,
                   pokemon2 |-> completeData2.name,
                   serverStatus |-> "success"]]

\* part_002 245-254
BattleResponse(battleResult, usingFallback, completeData1, completeData2, t) ==
    battleResult @@
    [metadata |-> [timestamp |-> t, usingFallback |-> usingFallback,
                   pokemon1 |-> completeData1.name,
                   pokemon2 |-> completeData2.name,
                   serverStatus |-> "success"]]

\* ---------------------- the battle request: tool and POST /api/battle

\* getCompletePokemonData building the creature as soon as the entity record
\* is there, with the flags of the species left false
Merged_EntityOnly(rq, sl, ch, j) ==
    LET p == 2 * j - 1
    IN  IF rq.complete[j] = None /\ Succeeded(sl[p])
        THEN [req |-> [rq EXCEPT !.complete[j] =
                          transformToSimplifiedPokemon(
                              sl[p].data,
                              [is_legendary |-> FALSE, is_mythical |-> FALSE])],
              slots |-> SlotsAfterSort(sl, sl[p].oid),
              cache |-> CacheAfterSort(ch, sl[p].oid)]
        ELSE [req |-> rq, slots |-> sl, cache |-> ch]

\* getCompletePokemonData for creature j of a battle: calls 2j-1 (entity)
\* and 2j (species).  Once both have succeeded the raw records are merged
\* (part_001 92-97), which sorts the entity record's lists in place.
Merged(rq, sl, ch, j) ==
    LET p == 2 * j - 1
    IN  IF rq.complete[j] = None /\ Succeeded(sl[p]) /\ Succeeded(sl[p + 1])
        THEN [req |-> [rq EXCEPT !.complete[j] =
                          transformToSimplifiedPokemon(sl[p].data, sl[p + 1].data)],
              slots |-> SlotsAfterSort(sl, sl[p].oid),
              cache |-> CacheAfterSort(ch, sl[p].oid)]
        ELSE [req |-> rq, slots |-> sl, cache |-> ch]

FetchFailedResponse(rq) ==
    IF rq.surface = "tool"
    THEN ToolError(<<"Error simulating battle: ", "battleSimulation: ",
                     "Failed to get complete Pokemon data">>)
    ELSE HttpResponse(500, [error |-> "Battle simulation failed"])

\* The battle handlers with the model call started beside the fetches
BattleSettle_ModelBesideFetches(rq, sl, ch, rs) ==
    LET m1 == Merged(rq, sl, ch, 1)
        m2 == Merged(m1.req, m1.slots, m1.cache, 2)
        failed == \E i \in 1..Len(sl) : sl[i].st = "fail"
    IN  IF rq.phase # "fetching"
        THEN [req |-> m2.req, slots |-> m2.slots, cache |-> m2.cache, resp |-> rs]
        ELSE IF failed
        THEN [req |-> [m2.req EXCEPT !.phase = "done", !.modelCalls = @ + 1],
              slots |-> m2.slots, cache |-> m2.cache,
              resp |-> FetchFailedResponse(rq)]
        ELSE IF m2.req.complete[1] # None /\ m2.req.complete[2] # None
        THEN [req |-> [m2.req EXCEPT !.phase = "model", !.modelCalls = @ + 1],
              slots |-> m2.slots, cache |-> m2.cache, resp |-> rs]
        ELSE [req |-> m2.req, slots |-> m2.slots, cache |-> m2.cache, resp |-> rs]

\* The battle handlers after an await of their fetches (gemini.ts 366-372,
\* part_002 165-190): the first rejection ends the request with an error;
\* when both creatures are there, the model is invoked.
BattleSettle(rq, sl, ch, rs) ==
    LET m1 == Merged(rq, sl, ch, 1)
        m2 == Merged(m1.req, m1.slots, m1.cache, 2)
        failed == \E i \in 1..Len(sl) : sl[i].st = "fail"
    IN  IF rq.phase # "fetching"
        THEN [req |-> m2.req, slots |-> m2.slots, cache |-> m2.cache, resp |-> rs]
        ELSE IF failed
        THEN [req |-> [m2.req EXCEPT !.phase = "done"], slots |-> m2.slots,
              cache |-> m2.cache, resp |-> FetchFailedResponse(rq)]
        ELSE IF m2.req.complete[1] # None /\ m2.req.complete[2] # None
        THEN [req |-> [m2.req EXCEPT !.phase = "model", !.modelCalls = @ + 1],
              slots |-> m2.slots, cache |-> m2.cache, resp |-> rs]
        ELSE [req |-> m2.req, slots |-> m2.slots, cache |-> m2.cache, resp |-> rs]

\* ------------------------------------------------- tool get_pokemon_list

\* A value a caller left out
Absent == [absent |-> TRUE]

\* A number a caller gave
Num(n) == [num |-> n]

\* Math.min(args.limit || 20, 100)  (gemini.ts 396)
ListLimit(limit) ==
    LET given == IF limit = Absent \/ limit.num = 0 THEN 20 ELSE limit.num
    IN  IF given < 100 THEN given ELSE 100

\* args.offset || 0  (gemini.ts 397)
ListOffset(offset) == IF offset = Absent THEN 0 ELSE offset.num

\* PokemonTools.formatPokemonList (gemini.ts 563-580)
formatPokemonList(list, offset) ==
    <<"# Pokemon List (", ToString(offset + 1), "-",
      ToString(offset + Len(list.results)), " of ", ToString(list.count), ")",
      "\n", "\n">>
    \o Join([i \in 1..Len(list.results) |->
                <<ToString(offset + i), ". ">>
                \o formatPokemonName(list.results[i].name)],
            <<"\n">>)
    \o <<"\n", "\n", "---", "\n", "*Use get_pokemon_data or get_pokemon_list*">>

\* PokemonTools.getPokemonList after its await (gemini.ts 401-420)
ListSettle(rq, sl, ch, rs) ==
    IF rq.phase # "fetching" \/ ~Settled(sl[1])
    THEN [req |-> rq, slots |-> sl, cache |-> ch, resp |-> rs]
    ELSE [req |-> [rq EXCEPT !.phase = "done"], slots |-> sl, cache |-> ch,
          resp |-> IF Succeeded(sl[1])
                   THEN ToolResult(formatPokemonList(sl[1].data, rq.offset))
                   ELSE ToolError(<<"Error retrieving Pokemon list: ",
                                    "getPokemonList: ", "Failed to fetch">>)]

\* --------------------------------------------------- tool search_pokemon

\* capitalizeFirst on the names of the types
capitalizeFirst(type) ==
    CASE type = "fire" -> "Fire" [] type = "rock" -> "Rock"
      [] type = "water" -> "Water" [] OTHER -> type

\* PokemonTools.formatSearchResults (gemini.ts 582-599)
formatSearchResults(results, query) ==
    <<"# Search Results for ", "\"">> \o query \o <<"\"", "\n", "\n", "Found ",
      ToString(Len(results)), " Pokemon:", "\n", "\n">>
    \o Join([i \in 1..Len(results) |->
                <<"**">> \o formatPokemonName(results[i].name)
                \o <<"**", " (#", ToString(results[i].id), ")", "\n", "- Types: ">>
                \o Join([k \in 1..Len(results[i].types) |->
                            <<capitalizeFirst(results[i].types[k])>>], <<", ">>)
                \o <<"\n", "- Total Stats: ", ToString(results[i].stats.total),
                     "\n", "- Status: ",
                     IF results[i].isLegendary THEN "Legendary"
                     ELSE IF results[i].isMythical THEN "Mythical"
                     ELSE "Regular">>],
            <<"\n", "\n">>)
    \o <<"\n", "\n", "---", "\n", "*Use get_pokemon_data*">>

\* The failure of the search swallowed into an empty result
SearchFailedResponse_Swallowed ==
    ToolResult(<<"No Pokemon found matching ", "\"", "\"">>)

SearchFailedResponse ==
    ToolError(<<"Error searching Pokemon: ", "searchPokemon: ",
                "Failed to search for Pokemon: ">>)

\* Every name of the list that contains the query
LimitedMatches_NoLimit(list, query) ==
    LET Matches(p) == includes(toLowerCase(p.name), toLowerCase(query))
    IN  SelectSeq(list.results, Matches)

\* The first five names of the list, whatever the query
LimitedMatches_AnyName(list, query) ==
    SubSeq(list.results, 1, IF Len(list.results) < 5 THEN Len(list.results) ELSE 5)

\* list.results.filter(p => p.name.toLowerCase().includes(query.toLowerCase()))
\* .slice(0, 5)  (part_001 158-163)
LimitedMatches(list, query) ==
    LET Matches(p) == includes(toLowerCase(p.name), toLowerCase(query))
        matches == SelectSeq(list.results, Matches)
    IN  SubSeq(matches, 1, IF Len(matches) < 5 THEN Len(matches) ELSE 5)

\* The getCompletePokemonData calls of the matches, calls 4, 5, 6, ...
RECURSIVE MatchFetches(_, _, _, _)
MatchFetches(ch, matches, j, n) ==
    IF j > Len(matches) THEN <<>>
    ELSE <<fetchWithCache(ch, EpPokemon(matches[j].name), "match",
                          <<n, 2 * j + 2>>),
           fetchWithCache(ch, EpSpecies(matches[j].name), "match",
                          <<n, 2 * j + 3>>)>>
         \o MatchFetches(ch, matches, j + 1, n)

\* getCompletePokemonData of the matches from the j-th on: a match whose two
\* calls have succeeded is merged, which sorts its raw record in place
RECURSIVE MergedMatches(_, _, _, _)
MergedMatches(rq, sl, ch, j) ==
    LET p == 2 * j + 2
    IN  IF j > Len(rq.found)
        THEN [req |-> rq, slots |-> sl, cache |-> ch]
        ELSE IF rq.found[j] = None /\ Succeeded(sl[p]) /\ Succeeded(sl[p + 1])
        THEN MergedMatches(
                 [rq EXCEPT !.found[j] =
                     transformToSimplifiedPokemon(sl[p].data, sl[p + 1].data)],
                 SlotsAfterSort(sl, sl[p].oid),
                 CacheAfterSort(ch, sl[p].oid), j + 1)
        ELSE MergedMatches(rq, sl, ch, j + 1)

\* PokeApiService.searchPokemon and PokemonTools.searchPokemon after one of
\* their awaits (part_001 150-175, gemini.ts 435-465)
RECURSIVE SearchSettle(_, _, _, _)
SearchSettle(rq, sl, ch, rs) ==
    CASE rq.phase = "exact" ->
           IF sl[1].st = "fail" \/ sl[2].st = "fail"
           THEN SearchSettle([rq EXCEPT !.phase = "list"],
                             Append(sl, fetchWithCache(ch, EpList(1000, 0), "list",
                                                       <<rq.n, 3>>)),
                             ch, rs)
           ELSE IF Succeeded(sl[1]) /\ Succeeded(sl[2])
           THEN LET pokemon == transformToSimplifiedPokemon(sl[1].data, sl[2].data)
                IN  [req |-> [rq EXCEPT !.phase = "done", !.exact = pokemon],
                     slots |-> SlotsAfterSort(sl, sl[1].oid),
                     cache |-> CacheAfterSort(ch, sl[1].oid),
                     resp |-> ToolResult(formatSearchResults(<<pokemon>>,
                                                             rq.args))]
           ELSE [req |-> rq, slots |-> sl, cache |-> ch, resp |-> rs]
      [] rq.phase = "list" ->
           IF sl[3].st = "fail"
           THEN [req |-> [rq EXCEPT !.phase = "done"], slots |-> sl,
                 cache |-> ch, resp |-> SearchFailedResponse]
           ELSE IF Succeeded(sl[3])
           THEN LET limitedMatches == LimitedMatches(sl[3].data, rq.query)
                IN  SearchSettle(
                        [rq EXCEPT !.phase = "matches",
                                   !.found = [j \in 1..Len(limitedMatches) |-> None]],
                        sl \o MatchFetches(ch, limitedMatches, 1, rq.n), ch, rs)
           ELSE [req |-> rq, slots |-> sl, cache |-> ch, resp |-> rs]
      [] rq.phase = "matches" ->
           LET m == MergedMatches(rq, sl, ch, 1)
           IN  IF \E i \in 4..Len(sl) : sl[i].st = "fail"
               THEN [req |-> [m.req EXCEPT !.phase = "done"], slots |-> m.slots,
                     cache |-> m.cache, resp |-> SearchFailedResponse]
               ELSE IF \A j \in 1..Len(m.req.found) : m.req.found[j] # None
               THEN [req |-> [m.req EXCEPT !.phase = "done"], slots |-> m.slots,
                     cache |-> m.cache,
                     resp |-> IF m.req.found = <<>>
                              THEN ToolResult(<<"No Pokemon found matching ", "\"">>
                                              \o rq.args \o <<"\"">>)
                              ELSE ToolResult(formatSearchResults(m.req.found,
                                                                  rq.args))]
               ELSE [req |-> m.req, slots |-> m.slots, cache |-> m.cache,
                     resp |-> rs]
      [] OTHER ->
           LET m == MergedMatches(rq, sl, ch, 1)
           IN  [req |-> m.req, slots |-> m.slots, cache |-> m.cache, resp |-> rs]

\* --------------------- tools get_pokemon_data and analyze_pokemon, dispatcher

\* A handler whose catch block lets the error go on to the caller
Caught_Rethrown(prefix, context, outcome) == outcome

\* try { ... } catch (error) { handleError(error, context); return { content:
\* [{ text: prefix + handledError.message }], isError: true } }
\* (gemini.ts 336-345, 494-503, part_000 801-810, 527-535)
Caught(prefix, context, outcome) ==
    IF IsThrown(outcome)
    THEN ToolError(<<prefix>> \o context \o <<": ">> \o outcome.message)
    ELSE outcome

\* formatStatValue (part_000 594-602)
formatStatValue(stat) ==
    IF stat <= 30 THEN "Very Low" ELSE IF stat <= 50 THEN "Low"
    ELSE IF stat <= 70 THEN "Average" ELSE IF stat <= 90 THEN "Good"
    ELSE IF stat <= 110 THEN "High" ELSE IF stat <= 130 THEN "Very High"
    ELSE "Exceptional"

\* getTierRating (part_000 604-613)
getTierRating(totalStats) ==
    IF totalStats >= 680 THEN "Legendary Tier"
    ELSE IF totalStats >= 600 THEN "Pseudo-Legendary Tier"
    ELSE IF totalStats >= 550 THEN "High Tier"
    ELSE IF totalStats >= 500 THEN "Mid-High Tier"
    ELSE IF totalStats >= 450 THEN "Mid Tier"
    ELSE IF totalStats >= 400 THEN "Low-Mid Tier"
    ELSE IF totalStats >= 350 THEN "Low Tier"
    ELSE "Very Low Tier"

\* PokemonTools.formatPokemonData (gemini.ts 506-538): the heading, the
\* types, the status, the stats and the abilities
formatPokemonData(pokemon) ==
    <<"# ">> \o formatPokemonName(pokemon.name)
    \o <<" (#", ToString(pokemon.id), ")", "\n", "- **Type(s):** ">>
    \o Join([k \in 1..Len(pokemon.types) |-> <<capitalizeFirst(pokemon.types[k])>>],
            <<", ">>)
    \o <<"\n", "- **Status:** ",
         IF pokemon.isLegendary THEN "Legendary"
         ELSE IF pokemon.isMythical THEN "Mythical" ELSE "Regular",
         " Pokemon", "\n",
         "- **HP:** ", ToString(pokemon.stats.hp), " (",
         formatStatValue(pokemon.stats.hp), ")", "\n",
         "- **Speed:** ", ToString(pokemon.stats.speed), " (",
         formatStatValue(pokemon.stats.speed), ")", "\n",
         "- **Total:** ", ToString(pokemon.stats.total), " (",
         getTierRating(pokemon.stats.total), ")", "\n", "## Abilities", "\n">>
    \o Join([k \in 1..Len(pokemon.abilities) |->
                <<formatPokemonName(<<pokemon.abilities[k]>>)[1]>>], <<", ">>)
    \o <<"\n", "---", "\n", "*Data retrieved from PokeAPI*">>

\* The prefix of the tool's error text and the context given to handleError
ErrorPrefix(op) ==
    IF op = "data" THEN "Error retrieving Pokemon data: "
    ELSE "Error analyzing Pokemon: "

ErrorContext(op) ==
    IF op = "data" THEN <<"getPokemonData">> ELSE <<"analyzePokemon">>

\* The answer to an identifier that fails validation (gemini.ts 316-324,
\* 473-481)
InvalidIdentifier(args) ==
    ToolError(<<"Invalid Pokemon identifier: ", "\"">> \o args.name
              \o <<"\"", ". Please provide a valid Pokemon name or Pokedex number.">>)

\* getPokemonData and analyzePokemon after an await (gemini.ts 326-335,
\* 483-493; part_001 90-101): the first rejected GET makes
\* getCompletePokemonData throw, which the tool's catch block answers; with
\* both records there the creature is built, and rendered (get_pokemon_data)
\* or given to the model (analyze_pokemon)
DataSettle(rq, sl, ch, rs) ==
    LET m == Merged(rq, sl, ch, 1)
        failed == \E i \in 1..Len(sl) : sl[i].st = "fail"
    IN  IF rq.phase # "fetching"
        THEN [req |-> m.req, slots |-> m.slots, cache |-> m.cache, resp |-> rs]
        ELSE IF failed
        THEN [req |-> [m.req EXCEPT !.phase = "done"], slots |-> m.slots,
              cache |-> m.cache,
              resp |-> Caught(ErrorPrefix(rq.op), ErrorContext(rq.op),
                              Throw(<<"Failed to get complete Pokemon data">>))]
        ELSE IF m.req.complete[1] = None
        THEN [req |-> m.req, slots |-> m.slots, cache |-> m.cache, resp |-> rs]
        ELSE IF rq.op = "data"
        THEN [req |-> [m.req EXCEPT !.phase = "done"], slots |-> m.slots,
              cache |-> m.cache,
              resp |-> Caught(ErrorPrefix(rq.op), ErrorContext(rq.op),
                              ToolResult(formatPokemonData(m.req.complete[1])))]
        ELSE [req |-> [m.req EXCEPT !.phase = "model", !.modelCalls = @ + 1],
              slots |-> m.slots, cache |-> m.cache, resp |-> rs]

\* The continuation of the request's handler after one of its awaits
Settle(rq, sl, ch, rs) ==
    CASE rq.op = "pokemon" -> PokemonSettle(rq, sl, ch, rs)
      [] rq.op = "battle" -> BattleSettle(rq, sl, ch, rs)
      [] rq.op = "list" -> ListSettle(rq, sl, ch, rs)
      [] rq.op = "search" -> SearchSettle(rq, sl, ch, rs)
      [] rq.op \in {"data", "analyze"} -> DataSettle(rq, sl, ch, rs)

\* ------------------------------------------------------------ the requests

MaxRequests == 3
MaxBattles == 2
MaxSearches == 2
MaxTicks == 2
MaxRev == 1

pureVars == <<vIn, vOut, pText, pOne, pTwo, pShape, pOut, tIn, tOut, retry>>

\* Requests are followed one at a time: the next one starts when the
\* response is out and every GET of the request has come back.
CanStart ==
    /\ started < MaxRequests
    /\ req = None \/ (resp # None /\ \A i \in 1..Len(slots) : Settled(slots[i]))

Begin(rq, sl, rs) ==
    LET out == IF rs = None THEN Settle(rq, sl, cache, rs)
               ELSE [req |-> rq, slots |-> sl, cache |-> cache, resp |-> rs]
    IN  /\ req' = out.req
        /\ slots' = out.slots
        /\ cache' = out.cache
        /\ resp' = out.resp
        /\ started' = started + 1
        /\ UNCHANGED <<now, ticks, rev, clears, pureVars>>

\* The identifiers a caller may give
Names1 == {<<"a">>, <<"b">>, <<"A">>, <<"x">>}

\* GET /api/pokemon/:name (part_002 104-143)
HttpGetPokemon(name) ==
    /\ CanStart
    /\ Begin([op |-> "pokemon", surface |-> "http", phase |-> "fetching",
              name |-> name],
             <<fetchWithCache(cache, EpPokemon(name), "pokemon", <<started + 1, 1>>)>>,
             None)

BattleRequest(surface, id1, id2) ==
    [op |-> "battle", surface |-> surface, phase |-> "fetching",
     id1 |-> id1, id2 |-> id2, complete |-> <<None, None>>,
     modelCalls |-> 0, model |-> "none"]

\* A call of fetchWithCache that waits for the GET of an earlier call in
\* progress for the same endpoint instead of issuing its own
JoinsPending(earlier, slot) ==
    IF \E k \in 1..Len(earlier) :
           earlier[k].ep = slot.ep /\ earlier[k].st = "pending"
    THEN [slot EXCEPT !.gets = 0]
    ELSE slot

\* The four calls of a battle with the GETs in progress shared
BattleFetches_SharedGets(id1, id2) ==
    LET first == <<fetchWithCache(cache, EpPokemon(id1), "c1", <<started + 1, 1>>),
                   fetchWithCache(cache, EpSpecies(id1), "c1", <<started + 1, 2>>)>>
    IN  first \o
        <<JoinsPending(first, fetchWithCache(cache, EpPokemon(id2), "c2",
                                             <<started + 1, 3>>)),
          JoinsPending(first, fetchWithCache(cache, EpSpecies(id2), "c2",
                                             <<started + 1, 4>>))>>

\* The four fetchWithCache calls of a battle, all made before the first await
BattleFetches(id1, id2) ==
    <<fetchWithCache(cache, EpPokemon(id1), "c1", <<started + 1, 1>>),
      fetchWithCache(cache, EpSpecies(id1), "c1", <<started + 1, 2>>),
      fetchWithCache(cache, EpPokemon(id2), "c2", <<started + 1, 3>>),
      fetchWithCache(cache, EpSpecies(id2), "c2", <<started + 1, 4>>)>>

\* PokemonTools.battleSimulation up to its first await (gemini.ts 348-369)
ToolBattle(pokemon1, pokemon2) ==
    LET validation1 == validatePokemonIdentifier(pokemon1)
        validation2 == validatePokemonIdentifier(pokemon2)
    IN  /\ CanStart
        /\ started < MaxBattles
        /\ IF ~validation1.isValid \/ ~validation2.isValid
           THEN Begin(BattleRequest("tool", pokemon1, pokemon2), <<>>,
                      ToolError(<<"Invalid Pokemon identifiers.">>))
           ELSE Begin(BattleRequest("tool", pokemon1, pokemon2),
                      BattleFetches(validation1.sanitized, validation2.sanitized),
                      None)

\* POST /api/battle up to its first await (part_002 145-168)
HttpBattle(pokemon1, pokemon2) ==
    /\ CanStart
    /\ started < MaxBattles
    /\ IF pokemon1 = Absent \/ pokemon2 = Absent
       THEN Begin(BattleRequest("http", pokemon1, pokemon2), <<>>,
                  HttpResponse(400, [error |-> "Both Pokemon are required"]))
       ELSE Begin(BattleRequest("http", pokemon1, pokemon2),
                  BattleFetches(pokemon1.name, pokemon2.name), None)

\* PokemonTools.getPokemonList up to its await (gemini.ts 394-401)
ToolList(args) ==
    LET limit == ListLimit(args.limit)
        offset == ListOffset(args.offset)
    IN  /\ CanStart
        /\ Begin([op |-> "list", surface |-> "tool", phase |-> "fetching",
                  args |-> args, limit |-> limit, offset |-> offset],
                 <<fetchWithCache(cache, EpList(limit, offset), "list",
                                  <<started + 1, 1>>)>>,
                 None)

SearchRequest(args, query, phase) ==
    [op |-> "search", surface |-> "tool", phase |-> phase, n |-> started + 1,
     given |-> args, args |-> query, query |-> trim(query), exact |-> None,
     found |-> <<>>]

\* Arguments that hold no query
EmptyArgs == [empty |-> TRUE]

\* The length test made on the query as it was given
QueryTooShort_Untrimmed(args) ==
    "query" \notin DOMAIN args \/ args.query = <<>> \/ Len(args.query) < 2

\* !args.query || args.query.trim().length < 2  (gemini.ts 427)
QueryTooShort(args) ==
    "query" \notin DOMAIN args \/ args.query = <<>> \/ Len(trim(args.query)) < 2

\* PokemonTools.searchPokemon up to its first await (gemini.ts 423-435,
\* part_001 150-153).  Without arguments, args.query throws a TypeError
\* inside the try block.
ToolSearch(args) ==
    /\ CanStart
    /\ started < MaxSearches
    /\ IF args = Absent
       THEN Begin(SearchRequest(args, <<>>, "done"), <<>>,
                  Caught("Error searching Pokemon: ", <<"searchPokemon">>,
                         Throw(<<"Cannot read properties of undefined">>)))
       ELSE IF QueryTooShort(args)
       THEN Begin(SearchRequest(args, IF "query" \in DOMAIN args THEN args.query
                                      ELSE <<>>, "done"),
                  <<>>,
                  ToolError(<<"Search query must be at least 2 characters long.">>))
       ELSE Begin(SearchRequest(args, args.query, "exact"),
                  <<fetchWithCache(cache, EpPokemon(trim(args.query)), "exact",
                                   <<started + 1, 1>>),
                    fetchWithCache(cache, EpSpecies(trim(args.query)), "exact",
                                   <<started + 1, 2>>)>>,
                  None)

\* The arguments of get_pokemon_data and analyze_pokemon: none, or a name
DataRequest(op, args, phase) ==
    [op |-> op, surface |-> "tool", phase |-> phase, args |-> args,
     complete |-> <<None>>, modelCalls |-> 0, model |-> "none"]

\* The two fetchWithCache calls of getCompletePokemonData, both made before
\* the await of Promise.all (part_001 92-95)
CompleteFetches(identifier) ==
    <<fetchWithCache(cache, EpPokemon(identifier), "c1", <<started + 1, 1>>),
      fetchWithCache(cache, EpSpecies(identifier), "c1", <<started + 1, 2>>)>>

\* getPokemonData and analyzePokemon up to their first await (gemini.ts
\* 311-326, 468-483), reached through the dispatcher (part_000 779-797).
\* Without arguments, or without a name, args.name or sanitizeInput throws a
\* TypeError inside the try block.
CallDataTool(op, args) ==
    /\ CanStart
    /\ IF "name" \notin DOMAIN args
       THEN Begin(DataRequest(op, args, "done"), <<>>,
                  Caught(ErrorPrefix(op), ErrorContext(op),
                         Throw(<<"Cannot read properties of undefined">>)))
       ELSE IF ~validatePokemonIdentifier(args.name).isValid
       THEN Begin(DataRequest(op, args, "done"), <<>>,
                  Caught(ErrorPrefix(op), ErrorContext(op), InvalidIdentifier(args)))
       ELSE Begin(DataRequest(op, args, "fetching"),
                  CompleteFetches(validatePokemonIdentifier(args.name).sanitized),
                  None)

ToolGetData(args) == CallDataTool("data", args)

ToolAnalyze(args) == CallDataTool("analyze", args)

\* The dispatcher called with a name that is none of the five tools
\* (part_000 799-810)
CallUnknownTool(name) ==
    /\ CanStart
    /\ Begin([op |-> "unknown", surface |-> "tool", phase |-> "done",
              name |-> name], <<>>,
             Caught("Error: ", <<"callTool:", name>>,
                    Throw(<<"Unknown tool: ", name>>)))

\* A GET comes back with a record: fetchWithCache stores it and returns it
\* (part_001 56-64), and the request's handler runs on
GetSucceeds(i) ==
    /\ req # None
    /\ i \in 1..Len(slots)
    /\ slots[i].st = "pending"
    /\ RemoteHas(slots[i].ep)
    /\ LET data == Payload(slots[i].ep, rev)
           out == Settle(req,
                         [slots EXCEPT ![i] = FetchStored(@, data)],
                         CacheSet(cache, slots[i].ep,
                                  [data |-> data, timestamp |-> now,
                                   oid |-> slots[i].oid]),
                         resp)
       IN  /\ req' = out.req
           /\ slots' = out.slots
           /\ cache' = out.cache
           /\ resp' = out.resp
    /\ UNCHANGED <<now, ticks, rev, started, clears, pureVars>>

\* A GET fails (no answer, an error status, the 10 s timeout):
\* fetchWithCache throws (part_001 65-67), and the request's handler runs on
GetFails(i) ==
    /\ req # None
    /\ i \in 1..Len(slots)
    /\ slots[i].st = "pending"
    /\ LET out == Settle(req, [slots EXCEPT ![i] = FetchThrown(@)], cache, resp)
       IN  /\ req' = out.req
           /\ slots' = out.slots
           /\ cache' = out.cache
           /\ resp' = out.resp
    /\ UNCHANGED <<now, ticks, rev, started, clears, pureVars>>

\* generateContent answers: simulateBattle parses the text (gemini.ts 31-45);
\* the tool renders the result (gemini.ts 372-381), the web server sends it
\* with its metadata (part_002 190-256)
ModelReturns(text) ==
    /\ req # None
    /\ req.op = "battle"
    /\ req.phase = "model"
    /\ LET parsedResult == parseBattleResult(text, req.complete[1], req.complete[2])
       IN  resp' = IF req.surface = "tool"
                   THEN ToolResult(formatBattleResult(parsedResult, req.complete[1],
                                                      req.complete[2]))
                   ELSE HttpResponse(200,
                            BattleResponse(parsedResult, FALSE, req.complete[1],
                                           req.complete[2], now))
    /\ req' = [req EXCEPT !.phase = "done", !.model = "answered"]
    /\ UNCHANGED <<cache, now, ticks, rev, started, slots, clears, pureVars>>

\* A failed call of the model answered by calling the model once more
ModelFails_CalledAgain ==
    /\ req # None
    /\ req.op = "battle"
    /\ req.phase = "model"
    /\ req' = [req EXCEPT !.model = "failed", !.modelCalls = 2]
    /\ UNCHANGED <<cache, now, ticks, rev, started, slots, resp, clears, pureVars>>

\* generateContent throws: simulateBattle rethrows (gemini.ts 47-82); the tool
\* answers with an error payload (gemini.ts 382-391), the web server builds
\* the statistical fallback (part_002 194-256)
ModelFails ==
    /\ req # None
    /\ req.op = "battle"
    /\ req.phase = "model"
    /\ resp' = IF req.surface = "tool"
               THEN ToolError(<<"Error simulating battle: ", "battleSimulation: ">>
                              \o GeminiFailed)
               ELSE HttpResponse(200,
                        BattleResponse(
                            FallbackBattleResult(req.complete[1], req.complete[2],
                                                 GeminiFailed),
                            TRUE, req.complete[1], req.complete[2], now))
    /\ req' = [req EXCEPT !.phase = "done", !.model = "failed"]
    /\ UNCHANGED <<cache, now, ticks, rev, started, slots, clears, pureVars>>

\* generateContent answers the analysis prompt (gemini.ts 247-249): the tool
\* puts the creature's name in front of the text (gemini.ts 486-493)
AnalysisReturns(text) ==
    /\ req # None
    /\ req.op = "analyze"
    /\ req.phase = "model"
    /\ resp' = Caught(ErrorPrefix(req.op), ErrorContext(req.op),
                      ToolResult(<<"# ">> \o formatPokemonName(req.complete[1].name)
                                 \o <<" Analysis", "\n", "\n">> \o text))
    /\ req' = [req EXCEPT !.phase = "done", !.model = "answered"]
    /\ UNCHANGED <<cache, now, ticks, rev, started, slots, clears, pureVars>>

\* generateContent throws: GeminiService.analyzePokemon rethrows (gemini.ts
\* 250-252), the tool's catch block answers (gemini.ts 494-503)
AnalysisFails ==
    /\ req # None
    /\ req.op = "analyze"
    /\ req.phase = "model"
    /\ resp' = Caught(ErrorPrefix(req.op), ErrorContext(req.op),
                      Throw(<<"Failed to analyze Pokemon: ">>))
    /\ req' = [req EXCEPT !.phase = "done", !.model = "failed"]
    /\ UNCHANGED <<cache, now, ticks, rev, started, slots, clears, pureVars>>

MaxClears == 1

\* PokeApiService.clearCache (part_001 210-212), which no handler calls: the
\* owner of the client may call it at any time
ClearCache ==
    /\ clears < MaxClears
    /\ cache' = [e \in {} |-> None]
    /\ clears' = clears + 1
    /\ UNCHANGED <<now, ticks, rev, started, req, slots, resp, pureVars>>

\* Time passes
Tick(d) ==
    /\ ticks < MaxTicks
    /\ now' = now + d
    /\ ticks' = ticks + 1
    /\ UNCHANGED <<cache, rev, started, req, slots, resp, clears, pureVars>>

\* The remote service changes its records
RemoteUpdate ==
    /\ rev < MaxRev
    /\ rev' = rev + 1
    /\ UNCHANGED <<cache, now, ticks, started, req, slots, resp, clears, pureVars>>

\* ------------------------------------------- model texts with four sections

MaxContentLines == 4

Sections == {"winner", "battleLog", "analysis", "summary"}

HeadingOf(section) ==
    CASE section = "winner" -> "**WINNER:**"
      [] section = "battleLog" -> "**BATTLE LOG:**"
      [] section = "analysis" -> "**STRATEGIC ANALYSIS:**"
      [] section = "summary" -> "**SUMMARY:**"

\* What the model may write after **WINNER:**
WinnerTexts == {<<" ", "a">>, <<" ", "A", " ">>, <<"b">>}

\* What the model may write as a line of a section: plain text, with or
\* without blanks around it, or a line that opens with bold markup
ContentLines == {<<" ", "hit">>, <<"dodge", " ">>, <<"**", "hit">>}

SectionContents ==
    UNION {[1..n -> ContentLines] : n \in 1..(MaxContentLines - 2)}

\* The orders of the four sections
SectionOrders ==
    {o \in [1..4 -> Sections] : \A i, j \in 1..4 : i # j => o[i] # o[j]}

Shapes ==
    {sh \in [order : SectionOrders, winner : WinnerTexts,
             battleLog : SectionContents, analysis : SectionContents,
             summary : SectionContents] :
        Len(sh.battleLog) + Len(sh.analysis) + Len(sh.summary) <= MaxContentLines}

RECURSIVE JoinLines(_)
JoinLines(lines) ==
    IF lines = <<>> THEN <<>>
    ELSE IF Len(lines) = 1 THEN Head(lines)
    ELSE Head(lines) \o <<"\n">> \o JoinLines(Tail(lines))

\* The lines of one section, laid out as the prompt asks (gemini.ts 140-150):
\* the winner beside its heading, every other heading on a line of its own
\* with the content on the lines below, and a blank line after the section
SectionLines(sh, section) ==
    IF section = "winner" THEN <<<<HeadingOf(section)>> \o sh.winner, <<>>>>
    ELSE <<<<HeadingOf(section)>>>> \o sh[section] \o <<<<>>>>

TextOf(sh) ==
    JoinLines(SectionLines(sh, sh.order[1]) \o SectionLines(sh, sh.order[2])
              \o SectionLines(sh, sh.order[3]) \o SectionLines(sh, sh.order[4]))

ParseCreatures == {Simplified("a"), Simplified("b")}

\* ------------------------------------------------------------ specifications

ValidateIdle == vIn = <<>> /\ vOut = None

ParseIdle ==
    /\ pText = <<>>
    /\ pOne = Simplified("a")
    /\ pTwo = Simplified("b")
    /\ pShape = None
    /\ pOut = None

ServiceIdle ==
    /\ cache = [e \in {} |-> None]
    /\ now = 0
    /\ ticks = 0
    /\ rev = 0
    /\ started = 0
    /\ req = None
    /\ slots = <<>>
    /\ resp = None
    /\ clears = 0

TransformIdle == tIn = None /\ tOut = None

RetryIdle == retry = None

validateVars == <<vIn, vOut>>
parseVars == <<pText, pOne, pTwo, pShape, pOut>>
transformVars == <<tIn, tOut>>
serviceVars == <<cache, now, ticks, rev, started, req, slots, resp, clears>>
retryVars == <<retry>>

\* -- validatePokemonIdentifier applied to every short string

MaxIdLen == 3

IdAlphabet == {"0", "1", "9", "a", "b", "e", "o", "x", "A", "-", " ", "!"}

IdStrings == UNION {[1..n -> IdAlphabet] : n \in 0..MaxIdLen}

InitValidate ==
    /\ vIn \in IdStrings
    /\ vOut = None
    /\ ParseIdle
    /\ TransformIdle
    /\ ServiceIdle
    /\ RetryIdle

Validate ==
    /\ vOut = None
    /\ vOut' = validatePokemonIdentifier(vIn)
    /\ UNCHANGED <<vIn, parseVars, transformVars, serviceVars, retryVars>>

NextValidate == Validate

SpecValidate == InitValidate /\ [][NextValidate]_vars

\* -- parseBattleResult applied to every text of four sections

InitParse ==
    /\ pShape \in Shapes
    /\ pText = TextOf(pShape)
    /\ pOne \in ParseCreatures
    /\ pTwo \in ParseCreatures \ {pOne}
    /\ pOut = None
    /\ ValidateIdle
    /\ TransformIdle
    /\ ServiceIdle
    /\ RetryIdle

Parse ==
    /\ pOut = None
    /\ pOut' = parseBattleResult(pText, pOne, pTwo)
    /\ UNCHANGED <<pText, pOne, pTwo, pShape, validateVars, transformVars,
                   serviceVars, retryVars>>

NextParse == Parse

SpecParse == InitParse /\ [][NextParse]_vars


\* -- parseBattleResult applied to texts of any lines

MaxLines == 4

\* What the model may write as a line
LineKinds ==
    {<<"**WINNER:**">>, <<"**WINNER:**", " ", "b">>, <<"**BATTLE LOG:**">>,
     <<"**STRATEGIC ANALYSIS:**", "hit">>, <<" ", "**SUMMARY:**">>,
     <<" ", "hit">>, <<"dodge">>, <<"**", "hit">>, <<>>}

LineTexts == UNION {[1..n -> LineKinds] : n \in 1..MaxLines}

\* Two creatures of equal total, and two of different totals in both orders
CreaturePairs ==
    {<<Simplified("a"), Simplified("b")>>, <<Simplified("a"), Simplified("e")>>,
     <<Simplified("e"), Simplified("a")>>}

InitParseLines ==
    /\ \E lines \in LineTexts :
           /\ pShape = [lines |-> lines]
           /\ pText = JoinLines(lines)
    /\ \E pair \in CreaturePairs : pOne = pair[1] /\ pTwo = pair[2]
    /\ pOut = None
    /\ ValidateIdle
    /\ TransformIdle
    /\ ServiceIdle
    /\ RetryIdle

SpecParseLines == InitParseLines /\ [][NextParse]_vars

\* -- transformToSimplifiedPokemon applied to raw records of every shape

MaxSlots == 3

\* The six stats in the order of the service, and what each is worth
StatOrder ==
    <<"hp", "attack", "defense", "special-attack", "special-defense", "speed">>

StatValue(n) ==
    CASE n = "hp" -> 3 [] n = "attack" -> 0 [] n = "defense" -> 1
      [] n = "special-attack" -> 2 [] n = "special-defense" -> 0
      [] OTHER -> 1

\* The stat list of a record that holds the stats `present`
StatList(present) ==
    LET Held(n) == n \in present
    IN  [i \in 1..Len(SelectSeq(StatOrder, Held)) |->
            [name |-> SelectSeq(StatOrder, Held)[i],
             base_stat |-> StatValue(SelectSeq(StatOrder, Held)[i])]]

SlotEntries == [slot : 1..2, name : {"fire", "rock"}]

\* Type lists in any order, with any multiplicity
TypeLists == UNION {[1..n -> SlotEntries] : n \in 0..MaxSlots}

AbilityLists ==
    {<<>>,
     <<[slot |-> 3, name |-> "sturdy"], [slot |-> 1, name |-> "torrent"]>>,
     <<[slot |-> 1, name |-> "static"], [slot |-> 1, name |-> "static"]>>}

RawRecords ==
    {[pokemon |-> [id |-> 1, name |-> <<"a">>, base_experience |-> 0,
                   stats |-> StatList(present), types |-> types,
                   abilities |-> abilities],
      species |-> RawSpecies.a] :
        present \in SUBSET StatNames, types \in TypeLists,
        abilities \in AbilityLists}

InitTransform ==
    /\ tIn \in RawRecords
    /\ tOut = None
    /\ ValidateIdle
    /\ ParseIdle
    /\ ServiceIdle
    /\ RetryIdle

Transform ==
    /\ tOut = None
    /\ tOut' = transformToSimplifiedPokemon(tIn.pokemon, tIn.species)
    /\ UNCHANGED <<tIn, validateVars, parseVars, serviceVars, retryVars>>

NextTransform == Transform

SpecTransform == InitTransform /\ [][NextTransform]_vars


\* -- retryWithBackoff (part_000 619-642) around a function that may fail

MaxRetries == 3

BaseDelays == {0, 1, 1000}

\* What one call of fn may come to: a value, or an error
FnValues == {"v1", "v2"}
FnErrors == {"e1", "e2"}

\* Math.pow(2, i) for a count i
RECURSIVE PowerOfTwo(_)
PowerOfTwo(i) == IF i = 0 THEN 1 ELSE 2 * PowerOfTwo(i - 1)

\* The wait that grows by baseDelay with every failure
DelayTime_Linear(baseDelay, i) == baseDelay * (i + 1)

\* baseDelay * Math.pow(2, i)  (part_000 636)
DelayTime(baseDelay, i) == baseDelay * PowerOfTwo(i)

\* The promise executor runs at once: the loop starts with i = 0 and calls fn
\* (part_000 624-627).  `calls` holds the outcome of every call of fn that has
\* come back, `delays` every wait that was started, `settled` the value the
\* promise was resolved with or the error it was rejected with.
InitRetry ==
    /\ \E maxRetries \in 0..MaxRetries, baseDelay \in BaseDelays :
           retry = [maxRetries |-> maxRetries, baseDelay |-> baseDelay, i |-> 0,
                    at |-> "fn", called |-> 1, calls |-> <<>>, delays |-> <<>>,
                    settled |-> None]
    /\ ValidateIdle
    /\ ParseIdle
    /\ TransformIdle
    /\ ServiceIdle

\* fn resolves: resolve(result) and return (part_000 627-629)
FnResolves(value) ==
    /\ retry # None
    /\ retry.at = "fn"
    /\ retry' = [retry EXCEPT !.at = "resolved",
                              !.calls = Append(@, [value |-> value]),
                              !.settled = [value |-> value]]
    /\ UNCHANGED <<validateVars, parseVars, transformVars, serviceVars>>

\* fn rejects or throws: the catch block rejects after the last attempt and
\* otherwise starts the wait (part_000 630-638)
FnRejects(error) ==
    /\ retry # None
    /\ retry.at = "fn"
    /\ retry' = IF retry.i = retry.maxRetries
                THEN [retry EXCEPT !.at = "rejected",
                                   !.calls = Append(@, Throw(error)),
                                   !.settled = Throw(error)]
                ELSE [retry EXCEPT !.at = "delay",
                                   !.calls = Append(@, Throw(error)),
                                   !.delays =
                                       Append(@, DelayTime(retry.baseDelay, retry.i))]
    /\ UNCHANGED <<validateVars, parseVars, transformVars, serviceVars>>

\* The timer of delay fires: i++, the loop test, and the next call of fn
\* (part_000 625-627, 638)
DelayElapses ==
    /\ retry # None
    /\ retry.at = "delay"
    /\ retry' = IF retry.i + 1 <= retry.maxRetries
                THEN [retry EXCEPT !.i = @ + 1, !.at = "fn", !.called = @ + 1]
                ELSE [retry EXCEPT !.i = @ + 1, !.at = "left"]
    /\ UNCHANGED <<validateVars, parseVars, transformVars, serviceVars>>

NextRetry ==
    \/ \E value \in FnValues : FnResolves(value)
    \/ \E error \in FnErrors : FnRejects(error)
    \/ DelayElapses

SpecRetry == InitRetry /\ [][NextRetry]_vars

\* Every call of fn comes back and every timer fires
SpecRetryFair ==
    /\ SpecRetry
    /\ WF_vars(\E value \in FnValues : FnResolves(value))
    /\ WF_vars(DelayElapses)
    /\ WF_vars(\E error \in FnErrors : FnRejects(error))

\* -- the cache under GET /api/pokemon/:name requests

TickSizes == {1, CACHE_TTL - 1}

InitService ==
    ValidateIdle /\ ParseIdle /\ TransformIdle /\ ServiceIdle /\ RetryIdle

NextCache ==
    \/ \E name \in Names1 : HttpGetPokemon(name)
    \/ \E i \in 1..Len(slots) : GetSucceeds(i)
    \/ \E i \in 1..Len(slots) : GetFails(i)
    \/ \E d \in TickSizes : Tick(d)
    \/ RemoteUpdate

SpecCache == InitService /\ [][NextCache]_vars

\* -- the cache under GET /api/pokemon/:name requests, get_pokemon_data and
\* clearCache

NextClear ==
    \/ \E name \in Names1 : HttpGetPokemon(name)
    \/ ToolGetData([name |-> <<"a">>])
    \/ \E i \in 1..Len(slots) : GetSucceeds(i)
    \/ \E i \in 1..Len(slots) : GetFails(i)
    \/ \E d \in TickSizes : Tick(d)
    \/ ClearCache

SpecClear == InitService /\ [][NextClear]_vars

\* -- battles on both boundaries

BattleNames == {<<"a">>, <<"b">>, <<"e">>, <<"!">>}

\* What the generative model may answer: the four sections, or other text
ModelTexts ==
    {TextOf([order |-> <<"winner", "battleLog", "analysis", "summary">>,
             winner |-> <<" ", "A">>, battleLog |-> <<<<"hit">>, <<"dodge">>>>,
             analysis |-> <<<<"hit">>>>, summary |-> <<<<"dodge">>>>]),
     <<"hit", "\n", "dodge">>}

HttpBodies == {Absent} \cup [name : BattleNames]

NextBattle ==
    \/ \E id1, id2 \in BattleNames : ToolBattle(id1, id2)
    \/ \E b1, b2 \in HttpBodies : HttpBattle(b1, b2)
    \/ \E i \in 1..Len(slots) : GetSucceeds(i)
    \/ \E i \in 1..Len(slots) : GetFails(i)
    \/ \E text \in ModelTexts : ModelReturns(text)
    \/ ModelFails

SpecBattle == InitService /\ [][NextBattle]_vars

\* -- the tools get_pokemon_list and search_pokemon

ListLimits == {Absent} \cup {Num(n) : n \in {-1, 0, 1, 100, 101}}
ListOffsets == {Absent} \cup {Num(n) : n \in {0, 2}}
Queries == {<<"a", "b">>, <<"b", "e">>, <<"A", "b", " ">>, <<"x", "x">>,
            <<" ", "a">>, <<>>}

SearchArgs == {Absent, EmptyArgs} \cup {[query |-> query] : query \in Queries}

NextCatalog ==
    \/ \E args \in [limit : ListLimits, offset : ListOffsets] : ToolList(args)
    \/ \E args \in SearchArgs : ToolSearch(args)
    \/ \E i \in 1..Len(slots) : GetSucceeds(i)
    \/ \E i \in 1..Len(slots) : GetFails(i)

SpecCatalog == InitService /\ [][NextCatalog]_vars

\* -- the tools that take identifiers, the list tool and the dispatcher's
\* answer to an unknown tool (the search tool runs in SpecCatalog)

DataArgs == {Absent, [name |-> <<"a">>], [name |-> <<"!">>]}
ToolNames == {<<"a">>, <<"!">>}
UnknownTools == {"get_pokemon"}
AnalysisTexts == {<<"fast">>}

NextTools ==
    \/ \E args \in DataArgs : ToolGetData(args)
    \/ \E args \in DataArgs : ToolAnalyze(args)
    \/ \E pokemon1, pokemon2 \in ToolNames : ToolBattle(pokemon1, pokemon2)
    \/ ToolList([limit |-> Num(1), offset |-> Absent])
    \/ \E name \in UnknownTools : CallUnknownTool(name)
    \/ \E i \in 1..Len(slots) : GetSucceeds(i)
    \/ \E i \in 1..Len(slots) : GetFails(i)
    \/ ModelReturns(<<"**WINNER:**", " ", "a">>)
    \/ ModelFails
    \/ \E text \in AnalysisTexts : AnalysisReturns(text)
    \/ AnalysisFails

SpecTools == InitService /\ [][NextTools]_vars

\* -- the search tool over a list with more than five matching names; of the
\* GETs, those of the exact fetch and of the list may fail

SearchQueries == {<<"A", "x">>, <<"a", "b">>}

NextSearch ==
    \/ \E query \in SearchQueries : ToolSearch([query |-> query])
    \/ \E i \in 1..Len(slots) : GetSucceeds(i)
    \/ \E i \in 1..3 : GetFails(i)

SpecSearch == InitService /\ [][NextSearch]_vars

\* ================================================================ properties

\* The current request is a battle whose model call has thrown
ModelCallFailed == req # None /\ req.op = "battle" /\ req.model = "failed"

\* The outcome of the statistical fallback for the creatures of the request
FallbackOfRequest ==
    FallbackBattleResult(req.complete[1], req.complete[2], GeminiFailed)

\* C1, as the spec states it: on either boundary, when both creatures were
\* fetched and the model call has thrown, the caller receives the outcome of
\* the statistical fallback, and neither an error-flagged payload nor an
\* error status.
C1_ModelFailureYieldsFallback ==
    ModelCallFailed =>
        /\ resp # None
        /\ ~resp.isError
        /\ resp.surface = "http" =>
               /\ resp.status = 200
               /\ resp.body.winner = FallbackOfRequest.winner
               /\ resp.body.battleLog = FallbackOfRequest.battleLog
        /\ resp.surface = "tool" =>
               resp.text = formatBattleResult(FallbackOfRequest, req.complete[1],
                                              req.complete[2])

\* The current request is a POST /api/battle answered by the fallback
HttpFallback == ModelCallFailed /\ req.surface = "http" /\ resp # None

C3_FallbackLogHasFiveEntries ==
    HttpFallback =>
        /\ Len(resp.body.battleLog) = 5
        /\ resp.body.metadata.usingFallback = TRUE

\* C3, amended: when the model call fails during POST /api/battle, the
\* response's battleLog has exactly 6 entries and metadata.usingFallback is
\* true.
C3_FallbackLogHasSixEntries ==
    HttpFallback =>
        /\ Len(resp.body.battleLog) = 6
        /\ resp.body.metadata.usingFallback = TRUE

\* C3 witness: a fallback response whose winner is the first creature
C3_Witness ==
    /\ HttpFallback
    /\ resp.status = 200
    /\ req.complete[1].stats.total > req.complete[2].stats.total

\* The entry a call found was still fresh at the time of the call
FoundFresh(slot) ==
    slot.prior # None /\ slot.at - slot.prior.timestamp < CACHE_TTL

\* What C4 says of the calls of the current request in one state
C4_Calls ==
    \A i \in 1..Len(slots) :
        /\ FoundFresh(slots[i]) =>
               /\ slots[i].st = "hit"
               /\ slots[i].data = slots[i].prior.data
               /\ slots[i].gets = 0
        /\ ~FoundFresh(slots[i]) =>
               /\ slots[i].st \in {"pending", "ok", "fail"}
               /\ slots[i].gets = 1

\* What C4 says of a step in which a GET comes back with a record
C4_Overwrites ==
    \A i \in 1..Len(slots) :
        (/\ slots[i].st = "pending"
         /\ Len(slots') = Len(slots)
         /\ slots'[i].st = "ok")
        => /\ slots[i].ep \in DOMAIN cache'
           /\ cache'[slots[i].ep].data = Payload(slots[i].ep, rev)
           /\ cache'[slots[i].ep].data = slots'[i].data
           /\ cache'[slots[i].ep].timestamp = now

\* C4: a fetchWithCache call that finds an entry younger than CACHE_TTL
\* returns the entry's data and issues no GET; a call that finds no entry, or
\* one of age CACHE_TTL or more, issues exactly one GET, whether the GET
\* succeeds or fails; and when the GET succeeds the entry is overwritten with
\* the record received and the time of its arrival.
C4_CacheWithinTtl == [](C4_Calls) /\ [][C4_Overwrites]_vars

\* C4 witness: the third request finds an entry of age CACHE_TTL or more, and
\* its GET has replaced the entry by a different record
C4_Witness ==
    /\ started = 3
    /\ Len(slots) = 1
    /\ slots[1].st = "ok"
    /\ slots[1].prior # None
    /\ slots[1].at - slots[1].prior.timestamp >= CACHE_TTL
    /\ slots[1].data # slots[1].prior.data
    /\ cache[slots[1].ep].data = slots[1].data


TrimAll(lines) == [i \in 1..Len(lines) |-> trim(lines[i])]

RECURSIVE JoinSpace(_)
JoinSpace(lines) ==
    IF lines = <<>> THEN <<>>
    ELSE IF Len(lines) = 1 THEN Head(lines)
    ELSE Head(lines) \o <<" ">> \o JoinSpace(Tail(lines))

NoBoldLine(lines) == \A i \in 1..Len(lines) : ~startsWithBold(trim(lines[i]))

\* C5, as the spec states it: whatever the order of the four sections and
\* whatever their lines, the parser returns the winner written beside
\* **WINNER:**, the lines written under **BATTLE LOG:** as the battle log, and
\* the lines written under **STRATEGIC ANALYSIS:** and **SUMMARY:** as the
\* analysis and the summary (trimmed, the lines of a text joined by a blank).
C5_RoundTripAnyContent ==
    pOut # None =>
        /\ pOut.winner = trim(pShape.winner)
        /\ pOut.battleLog = TrimAll(pShape.battleLog)
        /\ pOut.analysis = JoinSpace(TrimAll(pShape.analysis))
        /\ pOut.summary = JoinSpace(TrimAll(pShape.summary))

\* C5, amended: in every order of the four sections the winner is recovered,
\* and each of the other three fields is recovered whenever no line of its own
\* section begins with "**" (such a line is dropped by the parser).
C5_RoundTripPlainContent ==
    pOut # None =>
        /\ pOut.winner = trim(pShape.winner)
        /\ NoBoldLine(pShape.battleLog) =>
               pOut.battleLog = TrimAll(pShape.battleLog)
        /\ NoBoldLine(pShape.analysis) =>
               pOut.analysis = JoinSpace(TrimAll(pShape.analysis))
        /\ NoBoldLine(pShape.summary) =>
               pOut.summary = JoinSpace(TrimAll(pShape.summary))

\* C5 witness: a text parsed with the summary first and the winner last, whose
\* analysis has two plain lines and whose battle log has no bold line
C5_Witness ==
    /\ pOut # None
    /\ pShape.order[1] = "summary"
    /\ pShape.order[4] = "winner"
    /\ Len(pShape.analysis) = 2
    /\ NoBoldLine(pShape.analysis)
    /\ NoBoldLine(pShape.battleLog)
    /\ NoBoldLine(pShape.summary)

\* C6, as the spec states it: an identifier is valid exactly when its sanitized
\* form is non-empty and is either digits only or letters and hyphens only.
C6_ValidIffDigitsOrLetters ==
    vOut # None =>
        (vOut.isValid <=>
            /\ vOut.sanitized # <<>>
            /\ IsDigits(vOut.sanitized) \/ IsLettersAndHyphens(vOut.sanitized))

\* The current request is a get_pokemon_list call
ListCalled == req # None /\ req.op = "list"

\* C7, as the spec states it: the limit handed to the remote client lies in
\* 1..100; an absent limit becomes 20, a limit above 100 becomes 100, a limit
\* below 1 becomes 1; an absent offset becomes 0 and a given offset is handed
\* on unchanged.
C7_LimitClampedToRange ==
    ListCalled =>
        LET handed == slots[1].ep
            args == req.args
        IN  /\ handed.limit \in 1..100
            /\ args.limit = Absent => handed.limit = 20
            /\ (args.limit # Absent /\ args.limit.num > 100) => handed.limit = 100
            /\ (args.limit # Absent /\ args.limit.num < 1) => handed.limit = 1
            /\ args.offset = Absent => handed.offset = 0
            /\ args.offset # Absent => handed.offset = args.offset.num

\* The current request is a search that has reached PokeApiService
SearchCalled == req # None /\ req.op = "search" /\ Len(slots) >= 2

ExactFailed == slots[1].st = "fail" \/ slots[2].st = "fail"
ListFailed == Len(slots) >= 3 /\ slots[3].st = "fail"
MatchFailed == \E i \in 4..Len(slots) : slots[i].st = "fail"

\* C8, as the spec states it: a search fails only if the exact fetch and the
\* list fetch have both failed; in every other case, a failed fetch of a
\* matched name included, it has resolved with a list once it has ended.
C8_FailsOnlyIfExactAndListFail ==
    (SearchCalled /\ resp # None) =>
        (resp.isError <=> (ExactFailed /\ ListFailed))

\* C8, amended: a search fails exactly when the exact fetch has failed and
\* then the list fetch or the fetch of one of the matched names has failed; in
\* every other case it has resolved with a list once it has ended, and it has
\* not ended only while one of its GETs is out.
C8_FailsIfExactAndListOrMatchFail ==
    SearchCalled =>
        /\ resp # None =>
               (resp.isError <=> (ExactFailed /\ (ListFailed \/ MatchFailed)))
        /\ (resp # None /\ ~resp.isError) =>
               \/ includes(resp.text, <<"# Search Results for ">>)
               \/ includes(resp.text, <<"No Pokemon found matching ">>)
        /\ resp = None => \E i \in 1..Len(slots) : slots[i].st = "pending"

\* C8 witness: the exact fetch failed, the list was fetched, two names
\* matched, one of them was fetched and merged, and a fetch of the other failed
C8_Witness ==
    /\ SearchCalled
    /\ ExactFailed
    /\ Len(slots) = 7
    /\ Succeeded(slots[3])
    /\ MatchFailed
    /\ \E j \in 1..2 : req.found[j] # None
    /\ resp # None
    /\ resp.isError

\* C9, as the spec states it: for an outcome built by the statistical
\* fallback, the HTTP response and the text formatBattleResult renders of it
\* both carry the error witness together with the winner, every battle-log
\* entry, the analysis and the summary.
C9_BothBoundariesCarryWitness ==
    HttpFallback =>
        LET outcome == resp.body
            text == formatBattleResult(outcome, req.complete[1], req.complete[2])
        IN  /\ outcome.geminiError.occurred
            /\ outcome.geminiError.fallbackUsed
            /\ outcome.metadata.usingFallback
            /\ outcome.winner = FallbackOfRequest.winner
            /\ outcome.battleLog = FallbackOfRequest.battleLog
            /\ outcome.analysis = FallbackOfRequest.analysis
            /\ outcome.summary = FallbackOfRequest.summary
            /\ includes(text, formatPokemonName(outcome.winner))
            /\ \A i \in 1..Len(outcome.battleLog) :
                   includes(text, outcome.battleLog[i])
            /\ includes(text, outcome.analysis)
            /\ includes(text, outcome.summary)
            /\ includes(text, outcome.geminiError.message)

\* Some fetch of the current battle has failed
FetchFailed ==
    /\ req # None
    /\ req.op = "battle"
    /\ \E i \in 1..Len(slots) : slots[i].st = "fail"

\* C10: in a battle the model is invoked only when all fetches of both
\* creatures have succeeded, and at most once; once a fetch has failed the
\* request has ended with HTTP 500 or an error-flagged tool payload, the
\* model has not been invoked, and the response holds no battle outcome.
C10_ModelOnlyAfterBothFetches ==
    (req # None /\ req.op = "battle") =>
        /\ req.modelCalls <= 1
        /\ req.modelCalls > 0 =>
               /\ Len(slots) = 4
               /\ \A i \in 1..4 : Succeeded(slots[i])
               /\ req.complete[1] # None /\ req.complete[2] # None
        /\ FetchFailed =>
               /\ req.modelCalls = 0
               /\ req.model = "none"
               /\ req.phase = "done"
               /\ resp # None
               /\ resp.isError
               /\ resp.surface = "http" =>
                      /\ resp.status = 500
                      /\ "winner" \notin DOMAIN resp.body
               /\ resp.surface = "tool" =>
                      ~includes(resp.text, <<"**Winner:** ">>)

\* C10 witness: the second creature's fetch has failed after the first
\* creature was fetched, and the request has ended with an error
C10_Witness ==
    /\ FetchFailed
    /\ req.complete[1] # None
    /\ resp # None
    /\ resp.isError

\* The field of SimplifiedPokemon.stats that holds the stat named n
StatField(stats, n) ==
    CASE n = "hp" -> stats.hp [] n = "attack" -> stats.attack
      [] n = "defense" -> stats.defense
      [] n = "special-attack" -> stats.specialAttack
      [] n = "special-defense" -> stats.specialDefense
      [] OTHER -> stats.speed

\* C11: for every raw record, one that lacks some of the six stats included,
\* the transformation returns a creature in which a stat the record holds has
\* the record's value, a stat the record lacks is 0, and total is the sum of
\* the six stats.
C11_MissingStatIsZeroTotalIsSum ==
    tOut # None =>
        /\ \A n \in StatNames :
               IF HasStat(tIn.pokemon.stats, n)
               THEN \E i \in 1..Len(tIn.pokemon.stats) :
                        /\ tIn.pokemon.stats[i].name = n
                        /\ StatField(tOut.stats, n) = tIn.pokemon.stats[i].base_stat
               ELSE StatField(tOut.stats, n) = 0
        /\ tOut.stats.total = tOut.stats.hp + tOut.stats.attack
               + tOut.stats.defense + tOut.stats.specialAttack
               + tOut.stats.specialDefense + tOut.stats.speed

\* C11 witness: a record without attack and speed, with hp, was transformed
C11_Witness ==
    /\ tOut # None
    /\ ~HasStat(tIn.pokemon.stats, "attack")
    /\ ~HasStat(tIn.pokemon.stats, "speed")
    /\ HasStat(tIn.pokemon.stats, "hp")
    /\ tOut.stats.total > 0

NoDuplicates(names) ==
    \A i, j \in 1..Len(names) : names[i] = names[j] => i = j

\* The orders in which n entries can be put
Orders(n) == {f \in [1..n -> 1..n] : \A i, j \in 1..n : f[i] = f[j] => i = j}

\* `names` are names of entries of `raw`, every name of `raw` among them,
\* and a name that comes earlier has an entry of a slot that is not higher
SlotsAscend(names, raw) ==
    /\ \A k \in 1..Len(raw) : \E i \in 1..Len(names) : names[i] = raw[k].name
    /\ \A i \in 1..Len(names) : \E k \in 1..Len(raw) : names[i] = raw[k].name
    /\ \A i, j \in 1..Len(names) :
           i < j => \E k, l \in 1..Len(raw) :
                        /\ raw[k].name = names[i]
                        /\ raw[l].name = names[j]
                        /\ raw[k].slot <= raw[l].slot

\* `names` are the names of the entries of `raw` by ascending slot, entries of
\* one slot in the order of `raw`
StableBySlot(names, raw) ==
    /\ Len(names) = Len(raw)
    /\ \E f \in Orders(Len(raw)) :
           /\ \A i \in 1..Len(raw) : names[i] = raw[f[i]].name
           /\ \A i, j \in 1..Len(raw) :
                  i < j => \/ raw[f[i]].slot < raw[f[j]].slot
                           \/ raw[f[i]].slot = raw[f[j]].slot /\ f[i] < f[j]

\* C12, as the spec states it: the types and the abilities of the creature
\* returned hold no name twice and are in ascending order of the slots of the
\* raw record, whatever order and multiplicity the raw record has.
C12_NoDuplicatesAscendingSlots ==
    tOut # None =>
        /\ NoDuplicates(tOut.types)
        /\ NoDuplicates(tOut.abilities)
        /\ SlotsAscend(tOut.types, tIn.pokemon.types)
        /\ SlotsAscend(tOut.abilities, tIn.pokemon.abilities)

\* C12, amended: the types and the abilities of the creature returned are the
\* names of the raw record's entries, one name for each entry (a name the raw
\* record holds twice is returned twice), in ascending order of the slots,
\* entries of one slot in the order of the raw record.
C12_EveryEntryAscendingSlots ==
    tOut # None =>
        /\ StableBySlot(tOut.types, tIn.pokemon.types)
        /\ StableBySlot(tOut.abilities, tIn.pokemon.abilities)

\* C12 witness: a record whose types come in descending slot order with one
\* name twice was transformed
C12_Witness ==
    /\ tOut # None
    /\ Len(tIn.pokemon.types) = 3
    /\ tIn.pokemon.types[1].slot > tIn.pokemon.types[3].slot
    /\ tIn.pokemon.types[1].name = tIn.pokemon.types[2].name
    /\ ~NoDuplicates(tOut.types)

\* The line opens with one of the four headings
IsHeadingLine(line) == trim(line) # <<>> /\ Head(trim(line)) \in Headings

\* The section a heading line opens
SectionOpened(line) ==
    CHOOSE section \in Sections : HeadingOf(section) = Head(trim(line))

\* The last of the lines before the i-th that opens with a heading, or 0
LastHeadingBefore(lines, i) ==
    IF \E k \in 1..(i - 1) : IsHeadingLine(lines[k])
    THEN CHOOSE k \in 1..(i - 1) :
             /\ IsHeadingLine(lines[k])
             /\ \A m \in (k + 1)..(i - 1) : ~IsHeadingLine(lines[m])
    ELSE 0

\* The section that is active when the i-th line is read
SectionAt(lines, i) ==
    IF LastHeadingBefore(lines, i) = 0 THEN "none"
    ELSE SectionOpened(lines[LastHeadingBefore(lines, i)])

\* The text beside the last **WINNER:** heading, empty when there is none
LastWinnerText(lines) ==
    IF \E k \in 1..Len(lines) : startsWith(trim(lines[k]), "**WINNER:**")
    THEN LET k == CHOOSE k \in 1..Len(lines) :
                      /\ startsWith(trim(lines[k]), "**WINNER:**")
                      /\ \A m \in (k + 1)..Len(lines) :
                             ~startsWith(trim(lines[m]), "**WINNER:**")
         IN  trim(Tail(trim(lines[k])))
    ELSE <<>>

\* A text was parsed that names no winner
ParsedWithoutWinner ==
    pOut # None /\ "lines" \in DOMAIN pShape /\ LastWinnerText(pShape.lines) = <<>>

RECURSIVE SectionContent(_, _, _, _)
SectionContent(lines, section, withBold, i) ==
    IF i > Len(lines) THEN <<>>
    ELSE (IF /\ SectionAt(lines, i) = section
             /\ ~IsHeadingLine(lines[i])
             /\ trim(lines[i]) # <<>>
             /\ withBold \/ ~startsWithBold(trim(lines[i]))
          THEN <<trim(lines[i])>> ELSE <<>>)
         \o SectionContent(lines, section, withBold, i + 1)

\* The result holds the content of the three sections, each replaced by its
\* fallback when it is empty
HoldsContent(withBold) ==
    LET log == SectionContent(pShape.lines, "battleLog", withBold, 1)
        ana == SectionContent(pShape.lines, "analysis", withBold, 1)
        sum == SectionContent(pShape.lines, "summary", withBold, 1)
    IN  /\ pOut.battleLog = IF log = <<>> THEN <<pText>> ELSE log
        /\ pOut.analysis = IF ana = <<>> THEN AnalysisFallback ELSE JoinSpace(ana)
        /\ pOut.summary = IF sum = <<>> THEN SummaryFallback(pOut.winner)
                          ELSE JoinSpace(sum)

ParsedLines == pOut # None /\ "lines" \in DOMAIN pShape

\* C14, as the spec states it: the section changes only on a line that opens
\* with one of the four headings, and every other non-empty line read while
\* the battle log, the analysis or the summary is active is appended to that
\* section (an entry of the log, or joined by one blank); none is discarded.
C14_EveryLineAppended == ParsedLines => HoldsContent(TRUE)

\* C14, amended: the section changes only on a line that opens with one of the
\* four headings, and every other non-empty line that does not open with "**",
\* read while the battle log, the analysis or the summary is active, is
\* appended to that section (an entry of the log, or joined by one blank); a
\* line that opens with "**" and is no heading is discarded.
C14_EveryPlainLineAppended == ParsedLines => HoldsContent(FALSE)

\* C14 witness: a battle log of two entries with an empty line between them
C14_Witness ==
    /\ ParsedLines
    /\ Len(pShape.lines) = 4
    /\ pShape.lines[1] = <<"**BATTLE LOG:**">>
    /\ pShape.lines[3] = <<>>
    /\ pOut.battleLog = <<<<"hit">>, <<"dodge">>>>

\* A result payload: a text and the error flag, and nothing thrown
IsPayload(outcome) ==
    /\ ~IsThrown(outcome)
    /\ {"text", "isError"} \subseteq DOMAIN outcome
    /\ outcome.isError \in BOOLEAN

\* The invocation in progress was given an identifier that fails validation
FailsValidation ==
    /\ req # None
    /\ req.surface = "tool"
    /\ \/ /\ req.op \in {"data", "analyze"}
          /\ "name" \in DOMAIN req.args
          /\ ~validatePokemonIdentifier(req.args.name).isValid
       \/ /\ req.op = "battle"
          /\ \/ ~validatePokemonIdentifier(req.id1).isValid
             \/ ~validatePokemonIdentifier(req.id2).isValid

\* C15: what a tool invocation ends with is always a result payload, never a
\* thrown error, whatever the arguments and the remote services do (unknown
\* tool names included); an invocation whose identifier fails validation ends
\* at once with an error-flagged payload, with no GET issued and no model call.
C15_ToolsAnswerWithPayload ==
    (req # None /\ req.surface = "tool") =>
        /\ resp # None => IsPayload(resp)
        /\ req.phase = "done" => resp # None
        /\ FailsValidation =>
               /\ resp # None /\ resp.isError
               /\ slots = <<>>
               /\ req.modelCalls = 0 /\ req.model = "none"

\* C15 witness: an invocation with an invalid identifier has been answered,
\* after the dispatcher answered an unknown tool name or a model call failed
C15_Witness ==
    /\ FailsValidation
    /\ req.op = "analyze"
    /\ resp # None /\ resp.isError
    /\ started > 1

\* The exact fetch of the search has failed, the list has been fetched, and
\* none of its names contains the query (compared in lower case)
NothingMatches ==
    /\ SearchCalled
    /\ ExactFailed
    /\ Len(slots) >= 3
    /\ Succeeded(slots[3])
    /\ \A i \in 1..Len(slots[3].data.results) :
           ~includes(toLowerCase(slots[3].data.results[i].name),
                     toLowerCase(req.query))

\* C16: a search whose query has at least 2 trimmed characters, whose exact
\* fetch fails and whose query no name of the fetched list contains, ends with
\* a payload that is not error-flagged and says that nothing was found; the
\* client's result is the empty list and no further fetch is issued.
C16_NoMatchIsNotAnError ==
    NothingMatches =>
        /\ Len(trim(req.args)) >= 2
        /\ req.phase = "done"
        /\ req.found = <<>>
        /\ resp = ToolResult(<<"No Pokemon found matching ", "\"">> \o req.args
                             \o <<"\"">>)
        /\ ~resp.isError
        /\ Len(slots) = 3

\* C16 witness: the search for "xx" has ended after the list came back
C16_Witness ==
    /\ NothingMatches
    /\ req.args = <<"x", "x">>
    /\ slots[3].st = "ok"
    /\ Len(slots[3].data.results) > 1
    /\ resp # None

\* The names of the list that contain the query, compared in lower case, those
\* after the fifth such name left out, in the order of the list
FirstFiveMatching(list, query) ==
    LET Contains(i) == includes(toLowerCase(list.results[i].name),
                                toLowerCase(query))
        Kept(i) == /\ Contains(i)
                   /\ Cardinality({k \in 1..(i - 1) : Contains(k)}) < 5
        indexes == SelectSeq([i \in 1..Len(list.results) |-> i], Kept)
    IN  [j \in 1..Len(indexes) |-> list.results[indexes[j]].name]

ExactSucceeded == SearchCalled /\ Succeeded(slots[1]) /\ Succeeded(slots[2])

\* C17: when both records of the exact fetch have come, the search has ended
\* with that one creature and has issued no list fetch; when the exact fetch
\* has failed, the list of 1000 names is fetched, and once it is there a fetch
\* is issued for the first 5 names in list order that contain the query
\* case-insensitively and for no other name; the result holds those creatures.
C17_ExactOrFirstFiveMatches ==
    /\ ExactSucceeded =>
           /\ Len(slots) = 2
           /\ req.phase = "done"
           /\ req.exact = transformToSimplifiedPokemon(slots[1].data, slots[2].data)
           /\ resp = ToolResult(formatSearchResults(<<req.exact>>, req.args))
    /\ (SearchCalled /\ ExactFailed) =>
           /\ Len(slots) >= 3
           /\ slots[3].ep = EpList(1000, 0)
           /\ req.exact = None
           /\ Succeeded(slots[3]) =>
                  LET names == FirstFiveMatching(slots[3].data, req.query)
                  IN  /\ Len(names) <= 5
                      /\ Len(slots) = 3 + 2 * Len(names)
                      /\ \A j \in 1..Len(names) :
                             /\ slots[2 * j + 2].ep = EpPokemon(names[j])
                             /\ slots[2 * j + 3].ep = EpSpecies(names[j])
                      /\ (resp # None /\ ~resp.isError) =>
                             /\ Len(req.found) = Len(names)
                             /\ \A j \in 1..Len(names) :
                                    req.found[j].name = names[j]
           /\ ~Succeeded(slots[3]) => Len(slots) = 3

\* C17 witness: the search for "Ax", which six names of the list contain, has
\* ended with five creatures
C17_Witness ==
    /\ SearchCalled
    /\ req.args = <<"A", "x">>
    /\ ExactFailed
    /\ resp # None
    /\ ~resp.isError
    /\ Len(req.found) = 5
    /\ Len(SelectSeq(CatalogNames, LAMBDA n : includes(n, <<"a", "x">>))) = 6

\* The search in progress was called without a query, or with one of fewer
\* than 2 characters once the blanks around it are taken off
QueryMissingOrShort ==
    /\ req # None
    /\ req.op = "search"
    /\ \/ "query" \notin DOMAIN req.given
       \/ Len(trim(req.given.query)) < 2

\* C18: a search called with a missing query, or with a query whose trimmed
\* length is below 2, has ended at once with an error-flagged payload and has
\* issued no remote call.
C18_ShortQueryIsRejected ==
    QueryMissingOrShort =>
        /\ resp # None
        /\ IsPayload(resp)
        /\ resp.isError
        /\ slots = <<>>
        /\ req.phase = "done"

\* C18 witness: the search for " a", of two characters and one when trimmed,
\* was rejected after a search without a query was
C18_Witness ==
    /\ QueryMissingOrShort
    /\ req.given = [query |-> <<" ", "a">>]
    /\ resp # None /\ resp.isError
    /\ started = 2
    /\ slots = <<>>

\* get_pokemon_data or analyze_pokemon has called getCompletePokemonData
CompleteCalled ==
    /\ req # None
    /\ req.op \in {"data", "analyze"}
    /\ "name" \in DOMAIN req.args
    /\ validatePokemonIdentifier(req.args.name).isValid

\* C19: getCompletePokemonData has issued the entity request and the species
\* request together (there is no state with only one of them issued); it has
\* returned a creature exactly when both have succeeded, built from both
\* records; as soon as either has failed, whichever came back first, the call
\* has failed and no creature was built.  In a battle, too, a creature is
\* built only from both of its records.
C19_BothRecordsOrFailure ==
    /\ CompleteCalled =>
           LET identifier == validatePokemonIdentifier(req.args.name).sanitized
           IN  /\ Len(slots) = 2
               /\ slots[1].ep = EpPokemon(identifier)
               /\ slots[2].ep = EpSpecies(identifier)
               /\ \A i \in 1..2 : slots[i].at = slots[1].at
               /\ req.complete[1] # None <=>
                      (Succeeded(slots[1]) /\ Succeeded(slots[2]))
               /\ req.complete[1] # None =>
                      req.complete[1] =
                          transformToSimplifiedPokemon(slots[1].data, slots[2].data)
               /\ (slots[1].st = "fail" \/ slots[2].st = "fail") =>
                      /\ resp # None /\ resp.isError
                      /\ req.phase = "done"
                      /\ req.modelCalls = 0
    /\ (req # None /\ req.op = "battle") =>
           \A j \in 1..2 :
               req.complete[j] # None =>
                   /\ Succeeded(slots[2 * j - 1]) /\ Succeeded(slots[2 * j])
                   /\ req.complete[j] =
                          transformToSimplifiedPokemon(slots[2 * j - 1].data,
                                                       slots[2 * j].data)

\* C19 witness: the species request failed after the entity record had come
C19_Witness ==
    /\ CompleteCalled
    /\ slots[1].st = "ok"
    /\ slots[2].st = "fail"
    /\ resp # None /\ resp.isError

\* In this step a fetchWithCache call stores, under `key`, the record its GET
\* has delivered
StoredInStep(key) ==
    \E i \in 1..Len(slots) :
        /\ slots[i].ep = key
        /\ slots[i].st = "pending"
        /\ Len(slots') = Len(slots)
        /\ slots'[i].st = "ok"
        /\ key \in DOMAIN cache'
        /\ cache'[key].timestamp = now
        /\ cache'[key].data = slots'[i].data

\* What C20 says of one step
C20_Step ==
    /\ clears' = clears =>
           /\ DOMAIN cache \subseteq DOMAIN cache'
           /\ \A key \in DOMAIN cache :
                  \/ cache'[key] = cache[key]
                  \/ cache'[key] = [cache[key] EXCEPT !.data = SortedInPlace(@)]
                  \/ StoredInStep(key)
    /\ \A key \in DOMAIN cache' \ DOMAIN cache : StoredInStep(key)
    /\ clears' # clears => DOMAIN cache' = {}

\* C20: no read and no expiry removes an entry: in every step other than a
\* call of clearCache the keys of the cache stay or grow, and an entry,
\* expired or not, stays the same pair of record and timestamp (the record's
\* lists possibly sorted in place) unless the step is a fetchWithCache call
\* storing the record of its successful GET under that key; every new key is
\* written by such a call; and clearCache leaves the map empty.
C20_KeysOnlyGrow == [][C20_Step]_vars

\* C20 witness: the cache still holds an entry that has expired, beside an
\* entry that was stored after the first had expired
C20_Witness ==
    \E old, new \in DOMAIN cache :
        /\ now - cache[old].timestamp >= CACHE_TTL
        /\ cache[new].timestamp - cache[old].timestamp >= CACHE_TTL
        /\ cache[new].timestamp = now

\* POST /api/battle has answered the current request with an outcome
HttpBattleAnswered ==
    /\ req # None
    /\ req.op = "battle"
    /\ req.surface = "http"
    /\ resp # None
    /\ resp.status = 200

\* C21: in every successful POST /api/battle response, metadata.usingFallback
\* is true exactly when the model invocation failed, and the error witness
\* geminiError is present exactly then; when the model answered, also with a
\* text that holds none of the headings (so that the parser's field fallbacks
\* apply), usingFallback is false and there is no geminiError.
C21_FallbackFlagIffModelFailed ==
    HttpBattleAnswered =>
        /\ req.model \in {"failed", "answered"}
        /\ resp.body.metadata.usingFallback <=> req.model = "failed"
        /\ "geminiError" \in DOMAIN resp.body <=> req.model = "failed"
        /\ req.model = "failed" =>
               /\ resp.body.geminiError.occurred
               /\ resp.body.geminiError.fallbackUsed
        /\ req.model = "answered" =>
               /\ ~resp.body.metadata.usingFallback
               /\ "geminiError" \notin DOMAIN resp.body

\* C21 witness: the model answered with a text without headings, the battle
\* log of the response is that text and the summary is the parser's fallback
C21_Witness ==
    /\ HttpBattleAnswered
    /\ req.model = "answered"
    /\ resp.body.battleLog = <<<<"hit", "\n", "dodge">>>>
    /\ resp.body.analysis = AnalysisFallback
    /\ ~resp.body.metadata.usingFallback

\* C22: within one battle request the model is invoked at most once, through
\* the tool and through POST /api/battle alike: once a call of the model has
\* failed the request is over (answered with an error payload or with the
\* statistical fallback) with that single call, and no second call follows.
C22_ModelCalledAtMostOnce ==
    (req # None /\ req.op = "battle") =>
        /\ req.modelCalls \in {0, 1}
        /\ req.phase = "model" <=> (req.modelCalls = 1 /\ req.model = "none")
        /\ req.model \in {"answered", "failed"} =>
               /\ req.modelCalls = 1
               /\ req.phase = "done"
               /\ resp # None

\* C22 witness: the model call of a POST /api/battle request has failed and
\* the request has been answered with the fallback after that one call
C22_Witness ==
    /\ HttpFallback
    /\ req.modelCalls = 1
    /\ req.phase = "done"
    /\ resp.status = 200

\* C23: for any model text, the empty text and a text without heading
\* included, parseBattleResult returns a complete outcome: winner, loser,
\* analysis and summary are not empty and battleLog has at least one entry;
\* each field the text left empty is filled by its own fallback whatever the
\* text gave for the others: battleLog by the raw text as its single entry,
\* analysis by the fixed sentence, summary by the sentence naming the winner.
C23_OutcomeCompleteFieldByField ==
    (pOut # None /\ "lines" \in DOMAIN pShape) =>
        LET log == SectionContent(pShape.lines, "battleLog", FALSE, 1)
            ana == SectionContent(pShape.lines, "analysis", FALSE, 1)
            sum == SectionContent(pShape.lines, "summary", FALSE, 1)
        IN  /\ pOut.winner # <<>>
            /\ pOut.loser # <<>>
            /\ pOut.analysis # <<>>
            /\ pOut.summary # <<>>
            /\ Len(pOut.battleLog) >= 1
            /\ log = <<>> <=> pOut.battleLog = <<pText>>
            /\ ana = <<>> <=> pOut.analysis = AnalysisFallback
            /\ sum = <<>> <=> pOut.summary = SummaryFallback(pOut.winner)
            /\ LastWinnerText(pShape.lines) = <<>> =>
                   pOut.winner = StatWinner(pOne, pTwo)
            /\ LastWinnerText(pShape.lines) # <<>> =>
                   pOut.winner = LastWinnerText(pShape.lines)

\* C23 witness: a text that names the winner and holds an analysis but
\* neither a battle log nor a summary was parsed
C23_Witness ==
    /\ pOut # None
    /\ "lines" \in DOMAIN pShape
    /\ LastWinnerText(pShape.lines) = <<"b">>
    /\ pOut.winner = <<"b">>
    /\ pOut.battleLog = <<pText>>
    /\ pOut.analysis # AnalysisFallback
    /\ pOut.summary = SummaryFallback(<<"b">>)

\* Two fetchWithCache calls of the battle in hand for one endpoint: the four
\* calls of a battle are made before the first await, so the second starts
\* before the response of the first can have been stored
OverlappingFetches(i, j) ==
    /\ req # None
    /\ req.op = "battle"
    /\ i \in 1..Len(slots)
    /\ j \in 1..Len(slots)
    /\ i < j
    /\ slots[i].ep = slots[j].ep

\* The GETs issued for an endpoint by the calls of the battle in hand
RECURSIVE GetsFor(_, _)
GetsFor(endpoint, i) ==
    IF i > Len(slots) THEN 0
    ELSE (IF slots[i].ep = endpoint THEN slots[i].gets ELSE 0)
         + GetsFor(endpoint, i + 1)

\* C24, as the spec states it: when two fetches of one endpoint are in
\* progress at the same time (a battle of a creature against itself), only
\* one GET is issued for that endpoint.
C24_OverlappingFetchesShareOneGet ==
    \A i, j \in 1..Len(slots) :
        OverlappingFetches(i, j) => GetsFor(slots[i].ep, 1) <= 1

\* C24, amended: when two fetches of one endpoint are in progress at the same
\* time, each of them issues its own GET, two for that endpoint, unless the
\* cache held a fresh entry when they were called, and then neither issues one.
C24_OverlappingFetchesEachGet ==
    \A i, j \in 1..Len(slots) :
        OverlappingFetches(i, j) =>
            /\ slots[i].gets = slots[j].gets
            /\ slots[i].at = slots[j].at
            /\ slots[i].prior = slots[j].prior
            /\ GetsFor(slots[i].ep, 1) =
                   IF slots[i].prior # None
                      /\ isValidCache(slots[i].prior, slots[i].at)
                   THEN 0 ELSE 2

\* C24 witness: a battle of a creature against itself on a cold cache has two
\* GETs in progress for the creature's record
C24_Witness ==
    /\ OverlappingFetches(1, 3)
    /\ cache = [e \in {} |-> None]
    /\ slots[1].st = "pending"
    /\ slots[3].st = "pending"
    /\ slots[1].gets = 1
    /\ slots[3].gets = 1

\* What the remote service may have delivered for `key`, as an object in the
\* cache shows it: the record itself or, for a creature's record, the record
\* with its lists sorted in place
DeliveredFor(key) ==
    {Payload(key, r) : r \in 0..rev}
    \cup (IF key.kind = "pokemon"
          THEN {SortedInPlace(Payload(key, r)) : r \in 0..rev} ELSE {})

\* Every entry is a pair of the record of its own endpoint and a time
C25_Entries ==
    \A key \in DOMAIN cache :
        /\ {"data", "timestamp"} \subseteq DOMAIN cache[key]
        /\ RemoteHas(key)
        /\ cache[key].data \in DeliveredFor(key)
        /\ cache[key].timestamp \in 0..now
        /\ \A other \in DOMAIN cache :
               other # key => cache[key].data \notin DeliveredFor(other)

\* An entry that a step creates or replaces is written whole by a call whose
\* GET for that key succeeded in the step
C25_Step ==
    \A key \in DOMAIN cache' :
        (key \notin DOMAIN cache
         \/ cache'[key].timestamp # cache[key].timestamp
         \/ cache'[key].oid # cache[key].oid)
        => StoredInStep(key)

C26_CachedRecordAsDelivered ==
    /\ \A key \in DOMAIN cache :
           cache[key].data \in {Payload(key, r) : r \in 0..rev}
    /\ \A i \in 1..Len(slots) :
           slots[i].st = "hit" =>
               slots[i].data \in {Payload(slots[i].ep, r) : r \in 0..rev}

\* The two creatures of the battle POST /api/battle has answered
OutcomeNames == {req.complete[1].name, req.complete[2].name}

\* The outcome was parsed from the model's text of four sections, which
\* declares "A" the winner (its summary is the line of that text's section)
ParsedDeclaredWinner ==
    req.model = "answered" /\ resp.body.summary = <<"dodge">>

\* C27, as the spec states it: every outcome, parsed from the model's text or
\* built by a fallback, has winner and loser both among the names of the two
\* creatures, and winner differs from loser whenever the two names differ.
C27_WinnerAndLoserAmongTheTwo ==
    HttpBattleAnswered =>
        /\ resp.body.winner \in OutcomeNames
        /\ resp.body.loser \in OutcomeNames
        /\ req.complete[1].name # req.complete[2].name =>
               resp.body.winner # resp.body.loser

\* C27, amended: every outcome has its loser among the names of the two
\* creatures; its winner is among them when a fallback decided it (the
\* statistical fallback, or the parser's for a text that declares no winner)
\* and is otherwise the text the model declared, trimmed, whatever it is, the
\* loser then being creature 2 when that text is creature 1's name up to case
\* and creature 1 otherwise; winner differs from loser whenever the two names
\* differ.
C27_LoserAmongTheTwoWinnerAsDeclared ==
    HttpBattleAnswered =>
        /\ resp.body.loser \in OutcomeNames
        /\ ~ParsedDeclaredWinner => resp.body.winner \in OutcomeNames
        /\ ParsedDeclaredWinner =>
               /\ resp.body.winner = <<"A">>
               /\ resp.body.loser =
                      IF req.complete[1].name = <<"a">>
                      THEN req.complete[2].name ELSE req.complete[1].name
        /\ req.complete[1].name # req.complete[2].name =>
               resp.body.winner # resp.body.loser

\* C27 witness: the model declared "A" the winner of creature a against
\* creature b; the outcome names "A" the winner and creature b the loser
C27_Witness ==
    /\ HttpBattleAnswered
    /\ ParsedDeclaredWinner
    /\ req.complete[1].name = <<"a">>
    /\ req.complete[2].name = <<"b">>
    /\ resp.body.winner = <<"A">>
    /\ resp.body.loser = <<"b">>

\* Call i comes back in the step and the record of its GET is not stored: the
\* GET has failed
GetFailedInStep(i) ==
    /\ slots[i].st = "pending"
    /\ Len(slots') = Len(slots)
    /\ slots'[i].st # "pending"
    /\ ~(/\ slots[i].ep \in DOMAIN cache'
         /\ cache'[slots[i].ep].oid = slots[i].oid)

\* What C28 says of one step
C28_Step ==
    \A i \in 1..Len(slots) :
        GetFailedInStep(i)
        => /\ cache' = cache
           /\ slots[i].prior = None => slots[i].ep \notin DOMAIN cache'
           /\ slots[i].prior # None =>
                  /\ cache'[slots[i].ep] = slots[i].prior
                  /\ ~isValidCache(slots[i].prior, slots[i].at)
           /\ slots'[i].st = "fail"
           /\ IsThrown(slots'[i].data)
           /\ slots'[i].data.message.endpoint = slots[i].ep
           /\ resp' # None
           /\ resp'.status = 404

\* C28: a fetchWithCache call whose GET fails leaves the cache as it was: no
\* entry is created for its key, an expired entry under that key keeps its
\* data and timestamp, the call throws an error that names the endpoint, and
\* the expired data is not what the call returns.
C28_FailedFetchLeavesCache == [][C28_Step]_vars

\* C28 witness: a call found an expired entry, its GET failed, the entry is
\* as it was and the request was answered with an error
C28_Witness ==
    /\ Len(slots) = 1
    /\ slots[1].st = "fail"
    /\ slots[1].prior # None
    /\ slots[1].at - slots[1].prior.timestamp >= CACHE_TTL
    /\ cache[slots[1].ep] = slots[1].prior
    /\ IsThrown(slots[1].data)
    /\ resp # None
    /\ resp.status = 404

\* C29: every identifier a boundary operation hands to PokeApiService to
\* build an endpoint has been sanitized before: the endpoints of the
\* creature and species records asked for hold only characters of [a-z0-9-].
C29_EndpointsHoldSanitizedIdentifiers ==
    \A i \in 1..Len(slots) :
        slots[i].ep.kind \in {"pokemon", "pokemon-species"} =>
            /\ AllIn(slots[i].ep.id, IdentifierChars)
            /\ slots[i].ep.id = sanitizeInput(slots[i].ep.id)

RetrySettled == retry # None /\ retry.at \in {"resolved", "rejected"}

\* The calls of fn that have come back, all but the last one failed
AllButLastFailed ==
    \A k \in 1..(Len(retry.calls) - 1) : IsThrown(retry.calls[k])

\* What C30 says of a state
C30_State ==
    retry # None =>
        /\ retry.called <= retry.maxRetries + 1
        /\ Len(retry.calls) <= retry.called
        /\ AllButLastFailed
        /\ retry.at = "resolved" =>
               /\ Len(retry.calls) = retry.called
               /\ ~IsThrown(retry.calls[retry.called])
               /\ retry.settled = retry.calls[retry.called]
        /\ retry.at = "rejected" =>
               /\ retry.called = retry.maxRetries + 1
               /\ Len(retry.calls) = retry.called
               /\ \A k \in 1..retry.called : IsThrown(retry.calls[k])
               /\ retry.settled = retry.calls[retry.called]
        /\ retry.at \in {"fn", "delay"} => retry.settled = None
        /\ retry.at = "fn" => Len(retry.delays) = retry.called - 1
        /\ \A k \in 1..Len(retry.delays) :
               /\ IsThrown(retry.calls[k])
               /\ retry.delays[k] = retry.baseDelay * 2 ^ (k - 1)
        /\ retry.at # "left"

\* Once the promise is settled no call follows and nothing changes
C30_Step == RetrySettled => retry' = retry

==========================================================================
